---- MODULE Spec2Model ----
(***************************************************************************)
(* A model of the B^e-tree of betree.hpp on top of the swap space of       *)
(* swap_space.hpp, the LRU cache manager of cache_manager.cpp and the      *)
(* file-per-object backing store of backing_store.cpp, driven the way      *)
(* test.cpp drives it: every operation is also applied to a reference map. *)
(***************************************************************************)
EXTENDS Integers, Sequences, FiniteSets, TLC

(***************************************************************************)
(* Bounds of the model.                                                    *)
(***************************************************************************)
MaxKey == 3
MaxOps == 3
\* The pin instances a client of the swap space holds at a time.
MaxPins == 2

(***************************************************************************)
(* Program constants.                                                      *)
(***************************************************************************)
INSERT == 0
DELETE == 1
UPDATE == 2
\* TLC integers are 32 bits wide: the largest one stands for UINT64_MAX, which
\* no timestamp of a bounded run comes near.
UINT64_MAX == 2147483647
\* The null swap_space::pointer / the id no object has (ids start at 1).
NULL == 0

(***************************************************************************)
(* The state: the fields of swap_space, backing store, lru_cache_manager   *)
(* and betree, the reference map of test.cpp, and what the last call did.  *)
(***************************************************************************)
VARIABLES
    objects,                \* swap_space::objects: id -> base_object
    next_id,                \* swap_space::next_id
    ss_root,                \* swap_space::root (an object id, or NULL)
    last_checkpoint,        \* swap_space::last_checkpoint (its ids)
    blobs,                  \* backing store: blob id -> content
    bs_nextid,              \* one_file_per_object_backing_store::nextid
    bs_root,                \* the root blob id the backing store persists
    cache,                  \* lru_cache_manager::cache
    max_in_memory_objects,  \* lru_cache_manager::max_in_memory_objects
    update_interval,        \* lru_cache_manager::update_interval
    next_access_time,       \* lru_cache_manager::next_access_time
    bet,                    \* betree: root, next_timestamp, sizes, default_value
    status,                 \* "ok", or the assertion that ended the process
    reference,              \* test(): std::map<uint64_t, std::string> reference
    history,                \* the upserts made, in order: opcode, key, timestamp
    last_call,              \* the last call and its outcome
    nops,                   \* calls made so far
    events,                 \* what the last call did to objects and blobs
    checkpointed,           \* what the last checkpoint() that returned left
    reopened,               \* the swap space was read from a root blob
    pins                    \* the swap_space::pin instances a client holds: obj

vars == << objects, next_id, ss_root, last_checkpoint, blobs, bs_nextid, bs_root,
           cache, max_in_memory_objects, update_interval, next_access_time, bet,
           status, reference, history, last_call, nops, events, checkpointed,
           reopened, pins >>

Keys == 1 .. MaxKey
\* Values are std::strings and operator+ is concatenation: a value is a
\* sequence of pieces, each piece the string one call passed.  Where test.cpp
\* passes std::to_string(t) + ":" for key t, the calls of the model pass a
\* piece of their own each (see Piece), so that a value shows which calls
\* made it and in which order.
ValueOf(t) == << t >>
\* The operands of + the other way round.
PlusReversed(a, b) == b \o a
Plus(a, b) == a \o b
\* Value(): the default-constructed std::string.
DefaultValue == << >>

(***************************************************************************)
(* MessageKey: <<key, timestamp>>, ordered by key, then by timestamp.      *)
(***************************************************************************)
MessageKey(k, tstamp) == << k, tstamp >>
\* A range that starts behind every message for the key.
range_start_behind(k) == MessageKey(k, UINT64_MAX)
range_start(k) == MessageKey(k, 0)
range_end(k) == MessageKey(k, UINT64_MAX)
MkLess(a, b) == a[1] < b[1] \/ (a[1] = b[1] /\ a[2] < b[2])
Message(opc, v) == [opcode |-> opc, val |-> v]

\* std::map<MessageKey, Message> is a function on a finite set of message
\* keys; its iterators are message keys, MapEnd being end().
MapEnd == << 0, 0 >>
EmptyMap == << >>
MinMk(S) == CHOOSE x \in S : \A y \in S : ~MkLess(y, x)
MaxMk(S) == CHOOSE x \in S : \A y \in S : ~MkLess(x, y)
MapBegin(E) == IF DOMAIN E = {} THEN MapEnd ELSE MinMk(DOMAIN E)
lower_bound(E, mk) ==
    LET S == {x \in DOMAIN E : ~MkLess(x, mk)}
    IN  IF S = {} THEN MapEnd ELSE MinMk(S)
upper_bound(E, mk) ==
    LET S == {x \in DOMAIN E : MkLess(mk, x)}
    IN  IF S = {} THEN MapEnd ELSE MinMk(S)
\* --it on a map iterator that is not begin().
MapPrev(E, it) ==
    IF it = MapEnd THEN MaxMk(DOMAIN E)
    ELSE MaxMk({x \in DOMAIN E : MkLess(x, it)})
\* ++it
MapNext(E, it) == upper_bound(E, it)
\* erase(first, last): the half-open iterator range [first, last).
\* An erase that removes nothing.
MapEraseNone(E, first, last) == E
MapEraseRange(E, first, last) ==
    LET gone == {x \in DOMAIN E :
                    /\ first # MapEnd
                    /\ ~MkLess(x, first)
                    /\ (last = MapEnd \/ MkLess(x, last))}
    IN  [x \in DOMAIN E \ gone |-> E[x]]
\* m[k] = v
MapPut(E, mk, msg) == [x \in DOMAIN E \cup {mk} |-> IF x = mk THEN msg ELSE E[x]]
\* The message keys of a map in ascending order.
RECURSIVE SortedMks(_)
SortedMks(S) ==
    IF S = {} THEN << >>
    ELSE LET m == MinMk(S) IN << m >> \o SortedMks(S \ {m})

(***************************************************************************)
(* child_info and node.  pivot_map is a function on a finite set of keys.  *)
(***************************************************************************)
child_info(c, csize, elts) == [child |-> c, child_size |-> csize, elements |-> elts]
EmptyChildInfo == child_info(NULL, 0, EmptyMap)
EmptyPivots == << >>
node(h) == [pivots |-> EmptyPivots, height |-> h]
is_leaf(n) == n.height = 0

MinKey(S) == CHOOSE x \in S : \A y \in S : x <= y
MaxKeyOf(S) == CHOOSE x \in S : \A y \in S : y <= x
RECURSIVE SortedKeys(_)
SortedKeys(S) ==
    IF S = {} THEN << >>
    ELSE LET m == MinKey(S) IN << m >> \o SortedKeys(S \ {m})
RECURSIVE SumSeq(_)
SumSeq(s) == IF s = << >> THEN 0 ELSE Head(s) + SumSeq(Tail(s))

total_size(n) ==
    LET ks == SortedKeys(DOMAIN n.pivots)
    IN  Cardinality(DOMAIN n.pivots)
        + SumSeq([i \in 1 .. Len(ks) |-> Cardinality(DOMAIN n.pivots[ks[i]].elements)])

\* get_pivot: the pivot a key belongs to.  It asserts the map is not empty and
\* throws out_of_range for a key smaller than every pivot.
get_pivot_asserts(P) == DOMAIN P = {}
get_pivot_throws(P, k) == DOMAIN P # {} /\ \A p \in DOMAIN P : k < p
get_pivot(P, k) == MaxKeyOf({p \in DOMAIN P : p <= k})

PivotPut(P, k, ci) == [x \in DOMAIN P \cup {k} |-> IF x = k THEN ci ELSE P[x]]
PivotErase(P, k) == [x \in DOMAIN P \ {k} |-> P[x]]

(***************************************************************************)
(* node::apply, node::split_pivot, node::rebalance_leaf_pivots: the        *)
(* operations of a node on its own pivots and buffers.                     *)
(***************************************************************************)
\* An apply that buffers a DELETE or a first UPDATE at a leaf as an interior
\* node does.
apply_buffering(n, mkey, elt, default_value) ==
    LET p == get_pivot(n.pivots, mkey[1])
        elements == n.pivots[p].elements
        erased == MapEraseRange(elements,
                                lower_bound(elements, range_start(mkey[1])),
                                upper_bound(elements, range_end(mkey[1])))
        ub == upper_bound(elements, range_end(mkey[1]))
        iter == IF ub # MapBegin(elements) THEN MapPrev(elements, ub) ELSE ub
        new_elements ==
            IF elt.opcode = INSERT THEN MapPut(erased, mkey, elt)
            ELSE IF elt.opcode = DELETE THEN MapPut(erased, mkey, elt)
            ELSE IF iter = MapEnd \/ iter[1] # mkey[1]
                 THEN MapPut(elements, mkey, elt)
                 ELSE IF elements[iter].opcode = INSERT
                      THEN MapPut(erased, mkey,
                                  Message(INSERT, Plus(elements[iter].val, elt.val)))
                      ELSE MapPut(elements, mkey, elt)
    IN  [n EXCEPT !.pivots[p].elements = new_elements]

apply(n, mkey, elt, default_value) ==
    LET p == get_pivot(n.pivots, mkey[1])
        elements == n.pivots[p].elements
        erased == MapEraseRange(elements,
                                lower_bound(elements, range_start(mkey[1])),
                                upper_bound(elements, range_end(mkey[1])))
        ub == upper_bound(elements, range_end(mkey[1]))
        iter == IF ub # MapBegin(elements) THEN MapPrev(elements, ub) ELSE ub
        \* the recursive apply(mkey, Message(INSERT, v), default_value)
        as_insert(v) == MapPut(erased, mkey, Message(INSERT, v))
        new_elements ==
            IF elt.opcode = INSERT THEN MapPut(erased, mkey, elt)
            ELSE IF elt.opcode = DELETE
                 THEN IF is_leaf(n) THEN erased ELSE MapPut(erased, mkey, elt)
            ELSE \* UPDATE
                 IF iter = MapEnd \/ iter[1] # mkey[1]
                 THEN IF is_leaf(n)
                      THEN as_insert(Plus(default_value, elt.val))
                      ELSE MapPut(elements, mkey, elt)
                 ELSE IF elements[iter].opcode = INSERT
                      THEN as_insert(Plus(elements[iter].val, elt.val))
                      ELSE MapPut(elements, mkey, elt)
    IN  [n EXCEPT !.pivots[p].elements = new_elements]

\* for (it = elts.begin(); it != elts.end(); ++it) apply(it->first, it->second, ...)
RECURSIVE apply_seq(_, _, _, _)
apply_seq(n, elts, mks, default_value) ==
    IF mks = << >> THEN n
    ELSE apply_seq(apply(n, Head(mks), elts[Head(mks)], default_value),
                   elts, Tail(mks), default_value)
apply_all(n, elts, default_value) ==
    apply_seq(n, elts, SortedMks(DOMAIN elts), default_value)

\* split_pivot keyed by the last key of the upper half instead of its first.
split_pivot_at_back(n, pk) ==
    LET ci == n.pivots[pk]
        mks == SortedMks(DOMAIN ci.elements)
        half == Len(mks) \div 2
        upper == {mks[i] : i \in half + 1 .. Len(mks)}
        elements == [x \in upper |-> ci.elements[x]]
        kept == [x \in DOMAIN ci.elements \ upper |-> ci.elements[x]]
        P1 == [n.pivots EXCEPT ![pk].elements = kept]
        tk == MaxMk(upper)[1]
        \* pivots[tk] creates a default child_info when tk is no pivot yet; swap
        \* leaves the old buffer of pivots[tk] in the local that is dropped.
        P2 == IF tk \in DOMAIN P1
              THEN [P1 EXCEPT ![tk].elements = elements]
              ELSE PivotPut(P1, tk, child_info(NULL, 0, elements))
    IN  [n EXCEPT !.pivots = P2]

\* node::split_pivot: the upper half of the buffer of pivot pk moves under a
\* new pivot, the key of its first message.
split_pivot(n, pk) ==
    LET ci == n.pivots[pk]
        mks == SortedMks(DOMAIN ci.elements)
        half == Len(mks) \div 2
        upper == {mks[i] : i \in half + 1 .. Len(mks)}
        elements == [x \in upper |-> ci.elements[x]]
        kept == [x \in DOMAIN ci.elements \ upper |-> ci.elements[x]]
        P1 == [n.pivots EXCEPT ![pk].elements = kept]
        tk == MinMk(upper)[1]
        \* pivots[tk] creates a default child_info when tk is no pivot yet; swap
        \* leaves the old buffer of pivots[tk] in the local that is dropped.
        P2 == IF tk \in DOMAIN P1
              THEN [P1 EXCEPT ![tk].elements = elements]
              ELSE PivotPut(P1, tk, child_info(NULL, 0, elements))
    IN  [n EXCEPT !.pivots = P2]

\* The range-for over pivots sees the pivots split_pivot inserts behind it.
RECURSIVE rebalance_from(_, _, _)
\* A rebalancing that splits a pivot wherever it holds two messages or more.
rebalance_from_eager(n, pk, min_flush_size) ==
    LET n1 == IF Cardinality(DOMAIN n.pivots[pk].elements) > 1
              THEN split_pivot(n, pk)
              ELSE n
        rest == {p \in DOMAIN n1.pivots : p > pk}
    IN  IF rest = {} THEN n1 ELSE rebalance_from(n1, MinKey(rest), min_flush_size)
rebalance_from(n, pk, min_flush_size) ==
    LET n1 == IF Cardinality(DOMAIN n.pivots[pk].elements) > 2 * min_flush_size
              THEN split_pivot(n, pk)
              ELSE n
        rest == {p \in DOMAIN n1.pivots : p > pk}
    IN  IF rest = {} THEN n1 ELSE rebalance_from(n1, MinKey(rest), min_flush_size)
\* rebalance_leaf_pivots that splits no pivot.
rebalance_leaf_pivots_skipped(n, min_flush_size) == n
rebalance_leaf_pivots(n, min_flush_size) ==
    IF DOMAIN n.pivots = {} THEN n
    ELSE rebalance_from(n, MinKey(DOMAIN n.pivots), min_flush_size)

(***************************************************************************)
(* The world an operation runs in: the swap space (objects, next_id, root, *)
(* last_checkpoint), the backing store (blobs, nextid, root), the LRU      *)
(* cache manager (cache, max_in_memory_objects, update_interval,           *)
(* next_access_time), the betree object (bet), the fate of the process     *)
(* (status: "ok" until an assertion fails) and ret, the value the last     *)
(* member function returned.  Every operation maps a world to a world and  *)
(* leaves a world whose process is gone as it is.                          *)
(***************************************************************************)
NoTarget == [pivots |-> EmptyPivots, height |-> -1]
Abort(w, why) == IF w.status = "ok" THEN [w EXCEPT !.status = why] ELSE w
Return(w, v) == [w EXCEPT !.ret = v]
Target(w, id) == w.objects[id].target
SetTarget(w, id, n) == [w EXCEPT !.objects[id].target = n]
is_dirty(w, id) == w.objects[id].isdirty
is_pinned(w, id) == w.objects[id].pincount > 0
is_in_memory(w, id) == w.objects[id].target # NoTarget

\* The handles a node holds, as the multiset serialization tallies them
\* (pointer::save, pointer::load): child id -> number of pivots pointing at it.
Referents(n) ==
    LET ids == {n.pivots[p].child : p \in DOMAIN n.pivots} \ {NULL}
    IN  [c \in ids |-> Cardinality({p \in DOMAIN n.pivots : n.pivots[p].child = c})]

\* What a call did, kept for inspection: every object::evict with the state
\* of the object it found (and the objects pinned then), every delete this with the counts it found, every
\* unref that took the last reference of a pinned object, every
\* swap_space::allocate with the state of the new object when it returned (and
\* how many objects were pinned when it was called),
\* every backing-store allocate with whether a blob of that id existed, and
\* every flush that took the single-dirty-child path.  In the order they
\* happened: every split with the node it found and the two nodes it made,
\* every child_size a flush wrote, every batch a flush chose, every root
\* upsert installed, every message apply took, every clean that returned,
\* every step of a checkpoint, every choice of an object to evict, every
\* round of a flush loop that flushed a buffer, and every rebalancing of a
\* leaf's pivots.
NoEvents == [evict |-> {}, destroy |-> {}, deferred |-> {}, allocate |-> {},
             bs_allocate |-> {}, dirty_path |-> {},
             split |-> << >>, split_result |-> << >>, child_size |-> << >>,
             batch |-> << >>, root |-> << >>, apply |-> << >>, clean |-> << >>,
             checkpoint |-> << >>, victim |-> << >>, round |-> << >>,
             rebalance |-> << >>]
LogEvict(w, id) ==
    [w EXCEPT !.events.evict = @ \cup
        {[id |-> id, resident |-> is_in_memory(w, id), dirty |-> is_dirty(w, id),
          pincount |-> w.objects[id].pincount, bsid |-> w.objects[id].bsid,
          pinned |-> {i \in DOMAIN w.objects : is_pinned(w, i)}]}]
LogDestroy(w, id) ==
    [w EXCEPT !.events.destroy = @ \cup
        {[id |-> id, refcount |-> w.objects[id].refcount,
          pincount |-> w.objects[id].pincount]}]
LogDeferred(w, id) ==
    IF w.objects[id].refcount = 0 /\ w.objects[id].pincount > 0
    THEN [w EXCEPT !.events.deferred = @ \cup {id}]
    ELSE w
LogAllocate(w, id, fresh, pinned) ==
    IF w.status # "ok" THEN w
    ELSE [w EXCEPT !.events.allocate = @ \cup
             {IF id \in DOMAIN w.objects
              THEN [id |-> id, present |-> TRUE, fresh |-> fresh, pinned |-> pinned,
                    refcount |-> w.objects[id].refcount,
                    resident |-> is_in_memory(w, id), dirty |-> is_dirty(w, id),
                    bsid |-> w.objects[id].bsid]
              ELSE [id |-> id, present |-> FALSE, fresh |-> fresh, pinned |-> pinned,
                    refcount |-> 0, resident |-> FALSE, dirty |-> FALSE,
                    bsid |-> 0]}]
LogBsAllocate(w, id) ==
    [w EXCEPT !.events.bs_allocate = @ \cup
        {[id |-> id, taken |-> id \in DOMAIN w.blobs]}]

\* one_file_per_object_backing_store: allocate opens the file named after the
\* id for writing, which empties a file of that name that exists.
bs_allocate(w) == [LogBsAllocate(w, w.bs_nextid) EXCEPT
                      !.bs_nextid = @ + 1,
                      !.blobs = (w.bs_nextid :> NoTarget) @@ @]
bs_write(w, bsid, content) == [w EXCEPT !.blobs[bsid] = content]
bs_deallocate(w, bsid) ==
    IF w.status # "ok" THEN w
    ELSE IF bsid \notin DOMAIN w.blobs THEN Abort(w, "deallocate: assert(unlink(...) == 0)")
    ELSE [w EXCEPT !.blobs = [b \in DOMAIN w.blobs \ {bsid} |-> w.blobs[b]]]

\* lru_cache_manager::note_evict, note_death
cache_erase(w, id) == [w EXCEPT !.cache = @ \ {id}]

ref(w, id, amount) ==
    IF w.status # "ok" THEN w
    ELSE IF id \notin DOMAIN w.objects THEN Abort(w, "ref of a destroyed object")
    ELSE [w EXCEPT !.objects[id].refcount = @ + amount]

RECURSIVE ref_each(_, _, _)
ref_each(w, counts, ids) ==
    IF ids = << >> THEN w
    ELSE ref_each(ref(w, Head(ids), counts[Head(ids)]), counts, Tail(ids))

RECURSIVE unref(_, _, _)
RECURSIVE unref_each(_, _, _)
RECURSIVE delete_this(_, _)

\* The destruction that does not look at the pins.
delete_if_unreferenced(w, id) ==
    IF w.objects[id].refcount = 0 THEN delete_this(w, id) ELSE w

\* if (refcount == 0 && pincount == 0) delete this;
delete_if_unused(w, id) ==
    IF w.objects[id].refcount = 0 /\ w.objects[id].pincount = 0
    THEN delete_this(w, id)
    ELSE w

\* base_object::unref
unref(w, id, amount) ==
    IF w.status # "ok" THEN w
    ELSE IF id \notin DOMAIN w.objects THEN Abort(w, "unref of a destroyed object")
    ELSE IF amount > w.objects[id].refcount THEN Abort(w, "unref: assert(amount <= refcount)")
    ELSE delete_if_unused(LogDeferred([w EXCEPT !.objects[id].refcount = @ - amount],
                                      id),
                          id)

\* unref of every object of a referent tally, ids in ascending order
unref_each(w, counts, ids) ==
    IF ids = << >> THEN w
    ELSE unref_each(unref(w, Head(ids), counts[Head(ids)]), counts, Tail(ids))

\* if (id) ss->objects.erase(id);
objects_erase(w, id) ==
    IF w.status # "ok" THEN w
    ELSE [w EXCEPT !.objects = [i \in DOMAIN w.objects \ {id} |-> w.objects[i]]]

\* ~base_object of the object that was o: with no reference left, the blob and
\* the on-disk referents are released and the cache manager is told (note_death).
base_object_dtor(w, id, o) ==
    objects_erase(
        IF o.refcount # 0 THEN w
        ELSE cache_erase(
                 IF o.bsid # 0
                 THEN unref_each(bs_deallocate(w, o.bsid), o.ondisk_referents,
                                 SortedKeys(DOMAIN o.ondisk_referents))
                 ELSE w,
                 id),
        id)

\* delete this: ~object frees the target (dropping the handles in it), then
\* ~base_object runs.
delete_this(w, id) ==
    IF w.status # "ok" THEN w
    ELSE LET o == w.objects[id]
             held == Referents(o.target)
         IN  base_object_dtor(unref_each(LogDestroy(w, id), held,
                                         SortedKeys(DOMAIN held)),
                              id, o)

base_pin(w, id) ==
    IF w.status # "ok" THEN w
    ELSE IF id \notin DOMAIN w.objects THEN Abort(w, "pin of a destroyed object")
    ELSE [w EXCEPT !.objects[id].pincount = IF @ = UINT64_MAX THEN 0 ELSE @ + 1]

unpin(w, id) ==
    IF w.status # "ok" THEN w
    ELSE IF id \notin DOMAIN w.objects THEN Abort(w, "unpin of a destroyed object")
    ELSE delete_if_unused(
             [w EXCEPT !.objects[id].pincount = IF @ = 0 THEN UINT64_MAX ELSE @ - 1],
             id)

\* base_object::clean, from "bsid = newbsid" on
clean_done(w, id, newbsid, refcounts) ==
    IF w.status # "ok" THEN w
    ELSE IF id \notin DOMAIN w.objects THEN Abort(w, "clean: object destroyed")
    ELSE [w EXCEPT !.objects[id].bsid = newbsid,
                   !.objects[id].ondisk_referents = refcounts,
                   !.objects[id].isdirty = FALSE]

\* A release that drops the references of the old image and keeps its blob.
clean_release_kept(w, o) ==
    IF o.bsid > 0
    THEN unref_each(w, o.ondisk_referents, SortedKeys(DOMAIN o.ondisk_referents))
    ELSE w

\* base_object::clean, "if (bsid > 0) { ... }"
clean_release(w, o) ==
    IF o.bsid > 0
    THEN bs_deallocate(unref_each(w, o.ondisk_referents,
                                  SortedKeys(DOMAIN o.ondisk_referents)),
                       o.bsid)
    ELSE w

\* A reference tally as a set of (object id, count), and the reference counts
\* of the objects other than id as a set of (object id, refcount).
CountsIn(counts) == {<< x, counts[x] >> : x \in DOMAIN counts}
RefcountsBut(w, id) == {<< x, w.objects[x].refcount >> : x \in DOMAIN w.objects \ {id}}

\* clean() of object id has returned in w, having started in the world was:
\* the state of the object and of its old and new blob, the tallies of the
\* old and the new image, and the reference counts of the other objects
\* before and after.
LogClean(w, was, id, newbsid) ==
    IF w.status # "ok" THEN w
    ELSE [w EXCEPT !.events.clean =
             Append(w.events.clean,
                    [id |-> id, dirty |-> is_dirty(w, id),
                     resident |-> is_in_memory(w, id) /\ id \in w.cache,
                     bsid |-> w.objects[id].bsid, newbsid |-> newbsid,
                     taken |-> newbsid \in DOMAIN was.blobs,
                     allocated |->
                         /\ \A a \in was.events.bs_allocate : a.id # newbsid
                         /\ \E a \in w.events.bs_allocate : a.id = newbsid,
                     written |-> /\ newbsid \in DOMAIN w.blobs
                                 /\ w.blobs[newbsid] = was.objects[id].target
                                 /\ Target(w, id) = was.objects[id].target,
                     oldbsid |-> was.objects[id].bsid,
                     old_kept |-> was.objects[id].bsid \in DOMAIN w.blobs,
                     ondisk_referents |-> CountsIn(w.objects[id].ondisk_referents),
                     handles |-> CountsIn(Referents(Target(w, id))),
                     new |-> CountsIn(Referents(was.objects[id].target)),
                     old |-> IF was.objects[id].bsid > 0
                             THEN CountsIn(was.objects[id].ondisk_referents)
                             ELSE {},
                     before |-> RefcountsBut(was, id),
                     after |-> RefcountsBut(w, id)])]

\* base_object::clean
clean(w, id) ==
    IF w.status # "ok" THEN w
    ELSE IF ~w.objects[id].isdirty THEN Abort(w, "clean: assert(isdirty)")
    ELSE LET o == w.objects[id]
             refcounts == Referents(o.target)
         IN  LogClean(
                 clean_done(
                     clean_release(
                         ref_each(bs_write(bs_allocate(w), w.bs_nextid, o.target),
                                  refcounts, SortedKeys(DOMAIN refcounts)),
                         o),
                     id, w.bs_nextid, refcounts),
                 w, id, w.bs_nextid)

\* object::evict whose base_evict leaves the cache manager untold
evict_done_untold(w, id) ==
    IF w.status # "ok" THEN w
    ELSE IF id \notin DOMAIN w.objects THEN Abort(w, "evict: object destroyed")
    ELSE SetTarget(w, id, NoTarget)

\* object::evict, from "target = NULL" on, with base_evict's note_evict
evict_done(w, id) ==
    IF w.status # "ok" THEN w
    ELSE IF id \notin DOMAIN w.objects THEN Abort(w, "evict: object destroyed")
    ELSE cache_erase(SetTarget(w, id, NoTarget), id)

\* object::evict
evict(w, id) ==
    IF w.status # "ok" THEN w
    ELSE IF ~is_in_memory(w, id) THEN Abort(w, "evict: assert(target)")
    ELSE LET held == Referents(Target(w, id))
         IN  evict_done(unref_each(LogEvict(w, id), held, SortedKeys(DOMAIN held)),
                        id)

\* The cache in access order (the std::set's order).
CacheOrder(w) ==
    LET before(a, b) == w.objects[a].accessinfo < w.objects[b].accessinfo
        RECURSIVE order(_)
        order(S) == IF S = {} THEN << >>
                    ELSE LET m == CHOOSE a \in S : \A b \in S \ {a} : before(a, b)
                         IN  << m >> \o order(S \ {m})
    IN  order(w.cache)

RECURSIVE maybe_evict_something(_)
\* The eviction without the clean() of a dirty object.
evict_best_unclean(w, unpinned) ==
    IF unpinned = << >> THEN w
    ELSE maybe_evict_something(evict(w, Head(unpinned)))

\* if (best == NULL) return; if (best->is_dirty()) best->clean(); best->evict();
evict_best(w, unpinned) ==
    IF unpinned = << >> THEN w
    ELSE maybe_evict_something(
             evict(IF is_dirty(w, Head(unpinned)) THEN clean(w, Head(unpinned)) ELSE w,
                   Head(unpinned)))

\* maybe_evict_something has looked for an object to evict in w: the object
\* it chose (NULL for none), whether that is dirty, the cache manager's set as
\* (object, access stamp, pinned or not, in memory or not), its size and the
\* size allowed.
LogVictim(w, unpinned) ==
    [w EXCEPT !.events.victim =
        Append(w.events.victim,
               [best |-> IF unpinned = << >> THEN NULL ELSE Head(unpinned),
                dirty |-> unpinned # << >> /\ is_dirty(w, Head(unpinned)),
                stamps |-> {<< r, w.objects[r].accessinfo,
                               IF is_pinned(w, r) THEN 1 ELSE 0,
                               IF is_in_memory(w, r) THEN 1 ELSE 0 >> : r \in w.cache},
                size |-> Cardinality(w.cache),
                max |-> w.max_in_memory_objects])]

Reverse(q) == [i \in 1 .. Len(q) |-> q[Len(q) + 1 - i]]

\* An eviction that takes the unpinned object accessed last.
maybe_evict_something_newest(w) ==
    IF w.status # "ok" THEN w
    ELSE IF Cardinality(w.cache) <= w.max_in_memory_objects THEN w
    ELSE evict_best(LogVictim(w, Reverse(SelectSeq(CacheOrder(w),
                                                   LAMBDA r : ~is_pinned(w, r)))),
                    Reverse(SelectSeq(CacheOrder(w), LAMBDA r : ~is_pinned(w, r))))

maybe_evict_something(w) ==
    IF w.status # "ok" THEN w
    ELSE IF Cardinality(w.cache) <= w.max_in_memory_objects THEN w
    ELSE evict_best(LogVictim(w, SelectSeq(CacheOrder(w), LAMBDA r : ~is_pinned(w, r))),
                    SelectSeq(CacheOrder(w), LAMBDA r : ~is_pinned(w, r)))

note_birth_or_load(w, id) ==
    IF w.status # "ok" THEN w
    ELSE maybe_evict_something(
             [w EXCEPT !.objects[id].accessinfo = w.next_access_time,
                       !.next_access_time = @ + 1,
                       !.cache = @ \cup {id}])

note_read_or_write(w, id) ==
    IF w.status # "ok" THEN w
    ELSE IF w.next_access_time - w.objects[id].accessinfo > w.update_interval
         THEN [w EXCEPT !.objects[id].accessinfo = w.next_access_time,
                        !.next_access_time = @ + 1,
                        !.cache = @ \cup {id}]
         ELSE w

\* What a blob holds: a serialized node, or the directory of a checkpoint.
IsNode(content) == "pivots" \in DOMAIN content
IsDirectory(content) == "next_id" \in DOMAIN content

\* assert(refcounts == ondisk_referents)
load_check(w, refcounts, ondisk_referents) ==
    IF refcounts # ondisk_referents
    THEN Abort(w, "get_target: assert(refcounts == ondisk_referents)")
    ELSE w

\* base_object::get_target with a missing target: read_target deserializes the
\* blob (pointer::load takes a reference on every child and tallies it), the
\* cache manager is told of the load, and the tally must equal ondisk_referents.
load(w, id) ==
    LET o == w.objects[id]
    IN  IF o.bsid \notin DOMAIN w.blobs THEN Abort(w, "get: assert(ios->good())")
        ELSE IF ~IsNode(w.blobs[o.bsid])
        THEN Abort(w, "read_target: the blob does not hold a node")
        ELSE LET refcounts == Referents(w.blobs[o.bsid])
             IN  IF ~(DOMAIN refcounts \subseteq DOMAIN w.objects)
                 THEN Abort(w, "load: assert(objects.count(target) > 0)")
                 ELSE load_check(
                          note_birth_or_load(
                              ref_each(SetTarget(w, id, w.blobs[o.bsid]), refcounts,
                                       SortedKeys(DOMAIN refcounts)),
                              id),
                          refcounts, o.ondisk_referents)

\* isdirty = isdirty || dirty
set_dirty(w, id, dirty) ==
    IF w.status # "ok" THEN w ELSE [w EXCEPT !.objects[id].isdirty = @ \/ dirty]

get_target(w, id, dirty) ==
    IF w.status # "ok" THEN w
    ELSE IF id \notin DOMAIN w.objects THEN Abort(w, "get_target of a destroyed object")
    ELSE IF w.objects[id].pincount = 0 THEN Abort(w, "get_target: assert(pincount)")
    ELSE set_dirty(note_read_or_write(IF is_in_memory(w, id) THEN w ELSE load(w, id), id),
                   id, dirty)

\* p->...: pointer::operator-> pins the object and pin::operator-> gets the
\* target, for writing unless the pointer is const.
deref(w, id, dirty) ==
    IF id = NULL THEN Abort(w, "pointer::operator->: assert(obj)")
    ELSE get_target(base_pin(w, id), id, dirty)

\* swap_space::allocate<node>(height); the new object's id is w.next_id and the
\* pointer returned holds one reference.
allocate(w, height) ==
    IF w.status # "ok" THEN w
    ELSE LogAllocate(
             note_birth_or_load(
                 ref([w EXCEPT !.next_id = @ + 1,
                               !.objects =
                                   (w.next_id :>
                                       [target |-> node(height), bsid |-> 0,
                                        ondisk_referents |-> << >>, refcount |-> 0,
                                        pincount |-> 0, isdirty |-> TRUE,
                                        accessinfo |-> 0]) @@ @],
                     w.next_id, 1),
                 w.next_id),
             w.next_id, w.next_id \notin DOMAIN w.objects,
             Cardinality({i \in DOMAIN w.objects : is_pinned(w, i)}))

(***************************************************************************)
(* node::split                                                             *)
(***************************************************************************)
\* new_nodes[j]->pivots[it.first] = it.second, on the pinned new node dst
\* The pivot without its buffer.
copy_pivot_emptied(w, dst, k, ci) ==
    IF w.status # "ok" THEN w
    ELSE SetTarget(w, dst, [Target(w, dst) EXCEPT
             !.pivots = PivotPut(@, k, child_info(ci.child, ci.child_size, EmptyMap))])

copy_pivot(w, dst, k, ci) ==
    IF w.status # "ok" THEN w
    ELSE IF ci.child # NULL
    THEN ref(SetTarget(w, dst, [Target(w, dst) EXCEPT !.pivots = PivotPut(@, k, ci)]),
             ci.child, 1)
    ELSE SetTarget(w, dst, [Target(w, dst) EXCEPT !.pivots = PivotPut(@, k, ci)])

\* for (const auto & it : pivots) { ...; i++; }, for the pivots ks[i..] of n
RECURSIVE split_copy(_, _, _, _, _, _)
split_copy(w, n, ks, i, a, b) ==
    IF w.status # "ok" \/ i > Len(ks) THEN w
    ELSE LET dst == IF i - 1 < Len(ks) \div 2 THEN a ELSE b
         IN  split_copy(unpin(copy_pivot(deref(w, dst, TRUE), dst, ks[i], n.pivots[ks[i]]),
                              dst),
                        n, ks, i + 1, a, b)

\* result[...] = child_info(new_node), on the new node c pinned twice: once for
\* pivots.begin()->first and once for child->total_size()
split_entry_put(w, c) ==
    IF w.status # "ok" THEN w
    ELSE IF DOMAIN Target(w, c).pivots = {}
    THEN Abort(w, "split: pivots.begin() of an empty new node")
    ELSE ref(Return(w, PivotPut(w.ret, MinKey(DOMAIN Target(w, c).pivots),
                                child_info(c, total_size(Target(w, c)), EmptyMap))),
             c, 1)

\* result[new_node->pivots.begin()->first] = child_info(new_node)
split_entry(w, c) ==
    unpin(unpin(split_entry_put(deref(deref(w, c, TRUE), c, TRUE), c), c), c)

\* node::split once new_nodes[0] = a and new_nodes[1] = b are allocated; ret is
\* result, and new_nodes[1], new_nodes[0] go out of scope at the end.
split_into(w, n, a, b) ==
    unref(unref(split_entry(split_entry(split_copy(Return(w, EmptyPivots), n,
                                                   SortedKeys(DOMAIN n.pivots), 1, a, b),
                                        a),
                            b),
                b, 1),
          a, 1)

\* The node object id holds, in memory or in its blob.
StoredNode(w, id) ==
    IF is_in_memory(w, id) THEN Target(w, id) ELSE w.blobs[w.objects[id].bsid]

\* What a message map holds, as a set of (key, timestamp, opcode, value), and
\* what a pivot map holds, as a set of (pivot key, child, child_size, messages).
MessagesIn(E) == {<< mk[1], mk[2], E[mk].opcode, E[mk].val >> : mk \in DOMAIN E}
PivotsIn(P) ==
    {<< k, P[k].child, P[k].child_size, MessagesIn(P[k].elements) >> : k \in DOMAIN P}

\* split of node n has returned w.ret, having filled the new nodes a and b:
\* the pivots, height and total_size of n and of the new nodes, and the map
\* returned.
LogSplitResult(w, n, a, b) ==
    IF w.status # "ok" THEN w
    ELSE [w EXCEPT !.events.split_result =
             Append(w.events.split_result,
                    [a |-> a, b |-> b, result |-> PivotsIn(w.ret),
                     node |-> PivotsIn(n.pivots),
                     left |-> PivotsIn(StoredNode(w, a).pivots),
                     right |-> PivotsIn(StoredNode(w, b).pivots),
                     height |-> << n.height, StoredNode(w, a).height,
                                   StoredNode(w, b).height >>,
                     total_size |-> << total_size(n), total_size(StoredNode(w, a)),
                                       total_size(StoredNode(w, b)) >>])]

\* node::split once new_nodes[0] = a is allocated
split_second(w, n, a) ==
    LogSplitResult(split_into(allocate(w, n.height), n, a, w.next_id), n, a, w.next_id)

\* split has been called on node id: the node as split finds it.
LogSplit(w, id) ==
    [w EXCEPT !.events.split =
        Append(w.events.split,
               [id |-> id, height |-> Target(w, id).height,
                pivots |-> Cardinality(DOMAIN Target(w, id).pivots),
                total_size |-> total_size(Target(w, id))])]

split_asserted(w, id) ==
    IF total_size(Target(w, id)) < w.bet.max_node_size
    THEN Abort(w, "split: assert(total_size() >= bet.max_node_size)")
    ELSE IF Cardinality(DOMAIN Target(w, id).pivots) <= 1
    THEN Abort(w, "split: assert(pivots.size() > 1)")
    ELSE split_second(allocate(w, Target(w, id).height), Target(w, id), w.next_id)

split(w, id) ==
    IF w.status # "ok" THEN w ELSE split_asserted(LogSplit(w, id), id)

(***************************************************************************)
(* node::flush                                                             *)
(***************************************************************************)
\* pivots.insert(new_children.begin(), new_children.end()): a key already in
\* the map keeps its entry.  new_children then goes out of scope: a child that
\* was copied into the map keeps the reference of the copy.
RECURSIVE insert_children(_, _, _, _)
insert_children(w, id, new_children, ks) ==
    IF w.status # "ok" \/ ks = << >> THEN w
    ELSE insert_children(
             IF Head(ks) \in DOMAIN Target(w, id).pivots
             THEN unref(w, new_children[Head(ks)].child, 1)
             ELSE SetTarget(w, id, [Target(w, id) EXCEPT
                                       !.pivots = PivotPut(@, Head(ks),
                                                           new_children[Head(ks)])]),
             id, new_children, Tail(ks))

\* pivots.erase(it)
erase_pivot(w, id, pk) ==
    IF w.status # "ok" THEN w
    ELSE IF Target(w, id).pivots[pk].child # NULL
    THEN unref(SetTarget(w, id, [Target(w, id) EXCEPT !.pivots = PivotErase(@, pk)]),
               Target(w, id).pivots[pk].child, 1)
    ELSE SetTarget(w, id, [Target(w, id) EXCEPT !.pivots = PivotErase(@, pk)])

\* pivots.erase(it); pivots.insert(new_children.begin(), new_children.end());
replace_pivot(w, id, pk, new_children) ==
    insert_children(erase_pivot(w, id, pk), id, new_children,
                    SortedKeys(DOMAIN new_children))

\* The pivot to flush is the first with anything buffered, whatever the size.
flush_candidate_first(w, n) ==
    IF \A p \in DOMAIN n.pivots : DOMAIN n.pivots[p].elements = {} THEN NULL
    ELSE MinKey({p \in DOMAIN n.pivots : DOMAIN n.pivots[p].elements # {}})

\* The pivot the flush loop picks: the first, in key order, of the largest
\* buffers among those big enough to flush; NULL when there is none.
flush_candidate(w, n) ==
    LET f == w.bet.min_flush_size
        sz(p) == Cardinality(DOMAIN n.pivots[p].elements)
        eligible == {p \in DOMAIN n.pivots :
                        /\ \/ sz(p) >= f
                           \/ (sz(p) >= f \div 2 /\ is_in_memory(w, n.pivots[p].child))
                        /\ sz(p) > 0}
    IN  IF eligible = {} THEN NULL
        ELSE MinKey({p \in eligible : \A q \in eligible : sz(q) <= sz(p)})

\* if (pivots.size() == 0) pivots[elts.begin()->first.key] = child_info();
first_pivot_made(n, newmin) ==
    IF DOMAIN n.pivots = {}
    THEN [n EXCEPT !.pivots = PivotPut(@, newmin, EmptyChildInfo)]
    ELSE n

\* if (newmin < oldmin) { pivots[newmin.key] = pivots[oldmin]; pivots.erase(oldmin); }
first_pivot_lowered(n, newmin) ==
    IF newmin < MinKey(DOMAIN n.pivots)
    THEN [n EXCEPT !.pivots = PivotErase(PivotPut(@, newmin, @[MinKey(DOMAIN @)]),
                                         MinKey(DOMAIN @))]
    ELSE n

\* ...->second.child_size = ...->second.child->total_size(), on the pinned
\* child c; fp is the key of the pivot written, NULL when there is none.
set_child_size(w, id, fp, c) ==
    IF w.status # "ok" THEN w
    ELSE IF fp \in DOMAIN Target(w, id).pivots
    THEN SetTarget(w, id, [Target(w, id) EXCEPT
                              !.pivots[fp].child_size = total_size(Target(w, c))])
    ELSE w

\* child_pivot->second.elements.clear()
elements_clear(w, id, pk) ==
    IF w.status # "ok" THEN w
    ELSE SetTarget(w, id, [Target(w, id) EXCEPT !.pivots[pk].elements = EmptyMap])

\* The child_size each pivot records, as a set of (pivot key, child_size).
ChildSizes(P) == {<< k, P[k].child_size >> : k \in DOMAIN P}

\* Node id has flushed the buffer of child_pivot to child c, which did not
\* split, and has executed its child_size assignment: the child sizes of
\* the pivots before the flush (those of P) and now, the child's total_size,
\* and whether the iterator written through pointed at an erased pivot.
LogChildSize(w, P, id, child_pivot, c, dangling) ==
    IF w.status # "ok" THEN w
    ELSE [w EXCEPT !.events.child_size =
             Append(w.events.child_size,
                    [id |-> id, child_pivot |-> child_pivot, before |-> ChildSizes(P),
                     after |-> ChildSizes(Target(w, id).pivots),
                     child_total |-> total_size(StoredNode(w, c)),
                     dangling |-> dangling])]

\* The pivots whose child is in memory.
ResidentChildren(w, P) == {k \in DOMAIN P : is_in_memory(w, P[k].child)}

\* The number of messages each pivot buffers, as a set of (pivot key, number).
BufferSizes(P) == {<< k, Cardinality(DOMAIN P[k].elements) >> : k \in DOMAIN P}

\* A round of the flush loop of node id, whose pivots are P, has picked
\* child_pivot (NULL: none): the buffer sizes and the pivots whose child is in
\* memory.
LogBatch(w, id, P, child_pivot) ==
    [w EXCEPT !.events.batch =
        Append(w.events.batch,
               [id |-> id, child_pivot |-> child_pivot, size |-> BufferSizes(P),
                resident |-> ResidentChildren(w, P)])]

\* The buffer sizes the last round of node id's flush loop started with.
RoundStart(w, id) ==
    w.events.batch[MaxKeyOf({i \in DOMAIN w.events.batch :
                                w.events.batch[i].id = id})].size

\* A round of the flush loop of node id has flushed the buffer of child_pivot
\* to the child c, whose height was child_height: the buffer sizes the round
\* started with and ends with, and the heights of the node and of the child.
LogRound(w, id, child_pivot, child_height) ==
    IF w.status # "ok" THEN w
    ELSE [w EXCEPT !.events.round =
             Append(w.events.round,
                    [id |-> id, child_pivot |-> child_pivot,
                     before |-> RoundStart(w, id),
                     after |-> BufferSizes(Target(w, id).pivots),
                     height |-> Target(w, id).height,
                     child_height |-> child_height])]

\* A leaf that held the pivots P has rebalanced them into the pivots Q: the
\* buffer sizes and the messages before and after.
LogRebalance(w, P, Q) ==
    IF w.status # "ok" THEN w
    ELSE [w EXCEPT !.events.rebalance =
             Append(w.events.rebalance,
                    [before |-> BufferSizes(P), after |-> BufferSizes(Q),
                     held |-> UNION {MessagesIn(P[k].elements) : k \in DOMAIN P},
                     holds |-> UNION {MessagesIn(Q[k].elements) : k \in DOMAIN Q}])]

RECURSIVE flush(_, _, _)
RECURSIVE flush_loop(_, _, _, _)
RECURSIVE flush_child(_, _, _, _, _)
RECURSIVE flushed_child(_, _, _, _, _, _, _)

\* while (total_size() >= bet.max_node_size) { ... }.  fp stands for the
\* iterator first_pivot_idx: the key of the pivot it points at.  Once the loop
\* has erased that pivot the iterator dangles, and the later write through it
\* is undefined: the freed map node either stays free (fp = NULL, the write is
\* lost) or was handed out again for the first pivot inserted after the erase
\* (the write lands there); w.ub names the outcome this run takes.
flush_loop(w, id, fp, dangling) ==
    IF w.status # "ok" THEN w
    ELSE IF total_size(Target(w, id)) < w.bet.max_node_size THEN w
    ELSE flush_child(LogBatch(w, id, Target(w, id).pivots,
                              flush_candidate(w, Target(w, id))),
                     id,
                     flush_candidate(w, Target(w, id)), fp, dangling)

\* if (max_size == 0) break;
\* pivot_map new_children = child_pivot->second.child->flush(bet, ...elements);
flush_child(w, id, child_pivot, fp, dangling) ==
    IF child_pivot = NULL THEN w
    ELSE LET ci == Target(w, id).pivots[child_pivot]
         IN  flushed_child(unpin(flush(deref(w, ci.child, TRUE), ci.child, ci.elements),
                                 ci.child),
                           id, child_pivot, ci.child, fp, dangling,
                           StoredNode(w, ci.child).height)

\* The rest of the loop body, new_children being w.ret, and the next rounds.
flushed_child(w, id, child_pivot, c, fp, dangling, child_height) ==
    IF w.status # "ok" THEN w
    ELSE IF w.ret # EmptyPivots
    THEN flush_loop(LogRound(replace_pivot(elements_clear(w, id, child_pivot), id,
                                           child_pivot, w.ret),
                             id, child_pivot, child_height),
                    id,
                    IF fp # child_pivot THEN fp
                    ELSE IF w.ub = "reused" THEN MinKey(DOMAIN w.ret) ELSE NULL,
                    dangling \/ fp = child_pivot)
    ELSE flush_loop(LogRound(
                        LogChildSize(
                            unpin(set_child_size(
                                      deref([elements_clear(w, id, child_pivot)
                                                EXCEPT !.ub_hit = @ \/ dangling],
                                            c, TRUE),
                                      id, fp, c),
                                  c),
                            Target(w, id).pivots, id, child_pivot, c, dangling),
                        id, child_pivot, child_height),
                    id, fp, dangling)

\* if (is_leaf()) { ... } once the messages are applied and the pivots rebalanced
flush_leaf(w, id) ==
    IF total_size(Target(w, id)) >= w.bet.max_node_size
    THEN split(w, id)
    ELSE Return(w, EmptyPivots)

\* The single dirty child has taken elts: new_children is w.ret.
flushed_dirty_child(w, id, first_pivot_idx, c) ==
    IF w.status # "ok" THEN w
    ELSE IF w.ret # EmptyPivots
    THEN Return(replace_pivot(w, id, first_pivot_idx, w.ret), EmptyPivots)
    ELSE Return(LogChildSize(
                    unpin(set_child_size(deref(w, c, TRUE), id, first_pivot_idx, c), c),
                    Target(w, id).pivots, id, first_pivot_idx, c, FALSE),
                EmptyPivots)

\* if (total_size() > bet.max_node_size) result = split(bet);
flush_split(w, id) ==
    IF w.status # "ok" THEN w
    ELSE IF total_size(Target(w, id)) > w.bet.max_node_size
    THEN split(w, id)
    ELSE Return(w, EmptyPivots)

\* first_pivot_idx == last_pivot_idx && first_pivot_idx->second.child.is_dirty()
single_dirty_child(w, first_pivot_idx, last_pivot_idx, c) ==
    first_pivot_idx = last_pivot_idx /\ is_dirty(w, c)

\* flush has taken the single-dirty-child path at node id for the pivot pk:
\* the height of the node and the messages it buffers for that pivot.
LogDirtyPath(w, id, pk) ==
    [w EXCEPT !.events.dirty_path = @ \cup
        {[id |-> id, pivot |-> pk, height |-> Target(w, id).height,
          child_height |-> StoredNode(w, Target(w, id).pivots[pk].child).height,
          buffered |-> Cardinality(DOMAIN Target(w, id).pivots[pk].elements)]}]

\* The path taken without the assertion on the node's own buffer.
flush_dirty_child_unchecked(w, id, first_pivot_idx, c, elts) ==
    flushed_dirty_child(unpin(flush(deref(w, c, TRUE), c, elts), c),
                        id, first_pivot_idx, c)

\* The single-dirty-child path of node::flush.
flush_dirty_child(w, id, first_pivot_idx, c, elts) ==
    IF DOMAIN Target(w, id).pivots[first_pivot_idx].elements # {}
    THEN Abort(w, "flush: assert(first_pivot_idx->second.elements.size() == 0)")
    ELSE flushed_dirty_child(unpin(flush(deref(w, c, TRUE), c, elts), c),
                             id, first_pivot_idx, c)

\* The messages a node buffers, under whatever pivot, as a set of (key,
\* timestamp, opcode, value).
BufferedIn(n) == UNION {MessagesIn(n.pivots[p].elements) : p \in DOMAIN n.pivots}

\* Node n has applied the messages mks of elts, one after the other: for each,
\* the message, whether n is a leaf, and what n buffered before and after.
RECURSIVE LogApplies(_, _, _, _)
LogApplies(w, n, elts, mks) ==
    IF w.status # "ok" \/ mks = << >> THEN w
    ELSE LogApplies(
             [w EXCEPT !.events.apply =
                 Append(w.events.apply,
                        [leaf |-> is_leaf(n), mk |-> Head(mks),
                         opcode |-> elts[Head(mks)].opcode, val |-> elts[Head(mks)].val,
                         before |-> BufferedIn(n),
                         after |-> BufferedIn(apply(n, Head(mks), elts[Head(mks)],
                                                    w.bet.default_value))])],
             apply(n, Head(mks), elts[Head(mks)], w.bet.default_value), elts, Tail(mks))

\* node::flush once the first pivot covers the smallest new key
flush_into(w, id, elts) ==
    LET n == Target(w, id)
        first_pivot_idx == get_pivot(n.pivots, MinMk(DOMAIN elts)[1])
        last_pivot_idx == get_pivot(n.pivots, MaxMk(DOMAIN elts)[1])
        c == n.pivots[first_pivot_idx].child
    IN  IF is_leaf(n)
        THEN flush_leaf(LogRebalance(
                            LogApplies(
                                SetTarget(w, id,
                                    rebalance_leaf_pivots(
                                        apply_all(n, elts, w.bet.default_value),
                                        w.bet.min_flush_size)),
                                n, elts, SortedMks(DOMAIN elts)),
                            apply_all(n, elts, w.bet.default_value).pivots,
                            rebalance_leaf_pivots(
                                apply_all(n, elts, w.bet.default_value),
                                w.bet.min_flush_size).pivots),
                        id)
        ELSE IF c = NULL THEN Abort(w, "flush: null child pointer")
        ELSE IF single_dirty_child(w, first_pivot_idx, last_pivot_idx, c)
        THEN flush_dirty_child(LogDirtyPath(w, id, first_pivot_idx), id,
                               first_pivot_idx, c, elts)
        ELSE flush_split(flush_loop(LogApplies(
                                        SetTarget(w, id,
                                            apply_all(n, elts, w.bet.default_value)),
                                        n, elts, SortedMks(DOMAIN elts)),
                                    id, first_pivot_idx, FALSE),
                         id)

\* node::flush; ret is the pivot_map returned.
flush(w, id, elts) ==
    IF w.status # "ok" THEN w
    ELSE IF DOMAIN elts = {} THEN Return(w, EmptyPivots)
    ELSE flush_into(SetTarget(w, id,
                        first_pivot_lowered(
                            first_pivot_made(Target(w, id), MinMk(DOMAIN elts)[1]),
                            MinMk(DOMAIN elts)[1])),
                    id, elts)

(***************************************************************************)
(* betree::upsert, insert, update, erase                                   *)
(***************************************************************************)
\* root->pivots = new_nodes, on the pinned new root
set_pivots(w, new, new_nodes) ==
    IF w.status # "ok" THEN w
    ELSE ref_each(SetTarget(w, new, [Target(w, new) EXCEPT !.pivots = new_nodes]),
                  Referents([pivots |-> new_nodes]),
                  SortedKeys(DOMAIN Referents([pivots |-> new_nodes])))

\* root = (the pointer allocate returned): the new object is referenced, the
\* old one released, and the pointer allocate returned dies
set_root(w, old, new) ==
    IF w.status # "ok" THEN w
    ELSE unref([unref(ref(w, new, 1), old, 1) EXCEPT !.bet.root = new], new, 1)

\* upsert has replaced the root old by the new node, new_nodes being what the
\* flush of old returned: the heights of both and the pivots of the new root.
LogRoot(w, old, height, new, new_nodes) ==
    IF w.status # "ok" THEN w
    ELSE [w EXCEPT !.events.root =
             Append(w.events.root,
                    [old |-> old, new |-> new, returned |-> PivotsIn(new_nodes),
                     pivots |-> PivotsIn(StoredNode(w, new).pivots),
                     height |-> << height, StoredNode(w, new).height >>])]

\* A new root of the height of the old one.
grow_root_flat(w, old, new_nodes) ==
    IF w.status # "ok" THEN w
    ELSE unref_each(
             unpin(set_pivots(
                       deref(unpin(set_root(allocate(w, Target(w, old).height),
                                            old, w.next_id),
                                   old),
                             w.next_id, TRUE),
                       w.next_id, new_nodes),
                   w.next_id),
             Referents([pivots |-> new_nodes]),
             SortedKeys(DOMAIN Referents([pivots |-> new_nodes])))

\* root = sspace->allocate<node>(root->height+1), on the pinned old root, and
\* root->pivots = new_nodes; new_nodes then goes out of scope.
grow_root(w, old, new_nodes) ==
    IF w.status # "ok" THEN w
    ELSE unref_each(
             LogRoot(
                 unpin(set_pivots(
                           deref(unpin(set_root(allocate(w, Target(w, old).height + 1),
                                                old, w.next_id),
                                       old),
                                 w.next_id, TRUE),
                           w.next_id, new_nodes),
                       w.next_id),
                 old, Target(w, old).height, w.next_id, new_nodes),
             Referents([pivots |-> new_nodes]),
             SortedKeys(DOMAIN Referents([pivots |-> new_nodes])))

\* if (new_nodes.size() > 0) { ... }
flushed_root(w, old) ==
    IF w.status # "ok" \/ w.ret = EmptyPivots THEN w
    ELSE grow_root(deref(w, old, TRUE), old, w.ret)

upsert(w, opcode, k, v) ==
    flushed_root(
        unpin(flush(deref([w EXCEPT !.bet.next_timestamp = @ + 1], w.bet.root, TRUE),
                    w.bet.root,
                    MessageKey(k, w.bet.next_timestamp) :> Message(opcode, v)),
              w.bet.root),
        w.bet.root)

insert(w, k, v) == upsert(w, INSERT, k, v)
update(w, k, v) == upsert(w, UPDATE, k, v)
erase(w, k) == upsert(w, DELETE, k, w.bet.default_value)

(***************************************************************************)
(* node::query and betree::query.  ret is the outcome: "value" (with val)  *)
(* or "not_found" (std::out_of_range); when an assertion fails the abort   *)
(* is recorded in w.status.  visited lists the calls of node::query made   *)
(* on the way, outermost first: the object each ran on and its outcome.    *)
(***************************************************************************)
\* A call of node::query on object id with its outcome r.
Visit(id, r) == [id |-> id, kind |-> r.kind, val |-> r.val]
Found(w, v, visited) ==
    Return(w, [kind |-> "value", val |-> v, visited |-> visited])
NotFound(w, visited) ==
    Return(w, [kind |-> "not_found", val |-> DefaultValue, visited |-> visited])

\* The loop below with the operands of + exchanged: v = val + v.
RECURSIVE fold_updates_in_front(_, _, _, _)
fold_updates_in_front(elements, message_iter, k, v) ==
    IF message_iter = MapEnd \/ message_iter[1] # k THEN [ok |-> TRUE, val |-> v]
    ELSE IF elements[message_iter].opcode # UPDATE THEN [ok |-> FALSE, val |-> v]
    ELSE fold_updates_in_front(elements, MapNext(elements, message_iter), k,
                               Plus(elements[message_iter].val, v))

\* while (message_iter != elements.end() && message_iter->first.key == k)
\*     { assert(opcode == UPDATE); v = v + val; message_iter++; }
RECURSIVE fold_updates(_, _, _, _)
fold_updates(elements, message_iter, k, v) ==
    IF message_iter = MapEnd \/ message_iter[1] # k THEN [ok |-> TRUE, val |-> v]
    ELSE IF elements[message_iter].opcode # UPDATE THEN [ok |-> FALSE, val |-> v]
    ELSE fold_updates(elements, MapNext(elements, message_iter), k,
                      Plus(v, elements[message_iter].val))

\* "Apply any updates to the value obtained above" and return v
query_fold(w, f, visited) ==
    IF f.ok THEN Found(w, f.val, visited)
    ELSE NotFound(Abort(w, "query: assert(opcode == UPDATE)"), visited)

\* The child c has answered (w.ret): caught tells whether its out_of_range is
\* caught (the UPDATE case) or propagates.
query_below(w, elements, message_iter, k, c, caught) ==
    IF w.status # "ok" THEN NotFound(w, << Visit(c, w.ret) >> \o w.ret.visited)
    ELSE IF w.ret.kind = "value"
    THEN query_fold(w, fold_updates(elements, message_iter, k, w.ret.val),
                    << Visit(c, w.ret) >> \o w.ret.visited)
    ELSE IF caught
    THEN query_fold(w, fold_updates(elements, message_iter, k, w.bet.default_value),
                    << Visit(c, w.ret) >> \o w.ret.visited)
    ELSE NotFound(w, << Visit(c, w.ret) >> \o w.ret.visited)

RECURSIVE node_query(_, _, _)

\* The DELETE branch made to search down the tree the way the UPDATE branch
\* does, before the updates behind the DELETE are applied.
query_deleted_descends(w, ci, message_iter, k) ==
    query_below(unpin(node_query(deref(w, ci.child, FALSE), ci.child, k), ci.child),
                ci.elements, MapNext(ci.elements, message_iter), k, ci.child, TRUE)

\* else if (opcode == DELETE) { message_iter++; if (message_iter == end ||
\* k < message_iter->first) throw out_of_range; } and the updates behind it
query_deleted(w, ci, message_iter, k) ==
    IF MapNext(ci.elements, message_iter) = MapEnd
       \/ k < MapNext(ci.elements, message_iter)[1]
    THEN NotFound(w, << >>)
    ELSE query_fold(w, fold_updates(ci.elements, MapNext(ci.elements, message_iter), k,
                                    w.bet.default_value),
                    << >>)

node_query(w, id, k) ==
    IF w.status # "ok" THEN NotFound(w, << >>)
    ELSE IF get_pivot_asserts(Target(w, id).pivots)
    THEN NotFound(Abort(w, "get_pivot: assert(mp.size() > 0)"), << >>)
    ELSE IF get_pivot_throws(Target(w, id).pivots, k) THEN NotFound(w, << >>)
    ELSE
    LET ci == Target(w, id).pivots[get_pivot(Target(w, id).pivots, k)]
        elements == ci.elements
        it == lower_bound(elements, range_start(k))
    IN  IF is_leaf(Target(w, id))
        THEN IF it # MapEnd /\ it[1] = k
             THEN IF elements[it].opcode = INSERT THEN Found(w, elements[it].val, << >>)
                  ELSE NotFound(Abort(w, "query: assert(opcode == INSERT)"), << >>)
             ELSE NotFound(w, << >>)
        ELSE IF it = MapEnd \/ k < it[1]
        THEN \* v = get_pivot(k)->second.child->query(bet, k), through a const pointer
             query_below(unpin(node_query(deref(w, ci.child, FALSE), ci.child, k), ci.child),
                         elements, it, k, ci.child, FALSE)
        ELSE IF elements[it].opcode = UPDATE
        THEN \* try { Value t = ...child->query(bet, k); v = t; } catch (...) {}
             query_below(unpin(node_query(deref(w, ci.child, FALSE), ci.child, k), ci.child),
                         elements, it, k, ci.child, TRUE)
        ELSE IF elements[it].opcode = DELETE
        THEN query_deleted(w, ci, it, k)
        ELSE \* INSERT
             query_fold(w, fold_updates(elements, MapNext(elements, it), k,
                                        elements[it].val),
                        << >>)

\* The root has answered: its pin dies and its call heads the calls made.
query_done(w, root) ==
    Return(unpin(w, root), [w.ret EXCEPT !.visited = << Visit(root, w.ret) >> \o @])

\* betree::query: root-> is not const here, so the root is got for writing
query(w, k) == query_done(node_query(deref(w, w.bet.root, TRUE), w.bet.root, k), w.bet.root)

(***************************************************************************)
(* node::get_next_message_from_pivot, node::get_next_message.  ret is the  *)
(* outcome: "msg" (the message key mk and the message msg) or "throw"      *)
(* (std::out_of_range).  NullMkey is the mkey argument NULL.               *)
(***************************************************************************)
NullMkey == << -1, -1 >>
Next_(w, mk, msg) == Return(w, [kind |-> "msg", mk |-> mk, msg |-> msg])
NoNext(w) ==
    Return(w, [kind |-> "throw", mk |-> MapEnd, msg |-> Message(INSERT, DefaultValue)])

RECURSIVE get_next_message(_, _, _)
RECURSIVE get_next_message_from_pivot(_, _, _, _)
RECURSIVE next_message_loop(_, _, _, _)

\* The child has answered (w.ret); it is the node's own next message.
kids_or_own(w, ci, it) ==
    IF it = MapEnd THEN w
    ELSE IF w.status # "ok" THEN NoNext(w)
    ELSE IF w.ret.kind = "msg" /\ MkLess(w.ret.mk, it) THEN w
    ELSE Next_(w, it, ci.elements[it])

get_next_message_from_pivot(w, n, ci, mkey) ==
    LET it == IF mkey # NullMkey THEN upper_bound(ci.elements, mkey)
              ELSE MapBegin(ci.elements)
    IN  IF w.status # "ok" THEN NoNext(w)
        ELSE IF is_leaf(n)
        THEN IF it = MapEnd THEN NoNext(w) ELSE Next_(w, it, ci.elements[it])
        ELSE kids_or_own(unpin(get_next_message(deref(w, ci.child, FALSE), ci.child, mkey),
                               ci.child),
                         ci, it)

\* try { return ...; } catch (std::out_of_range e) { ++it; }
next_message_caught(w, id, ks, mkey) ==
    IF w.status # "ok" \/ w.ret.kind = "msg" THEN w
    ELSE next_message_loop(w, id, Tail(ks), mkey)

\* while (it != pivots.end()) { ... } throw std::out_of_range(...)
next_message_loop(w, id, ks, mkey) ==
    IF w.status # "ok" \/ ks = << >> THEN NoNext(w)
    ELSE next_message_caught(
             get_next_message_from_pivot(w, Target(w, id),
                                         Target(w, id).pivots[Head(ks)], mkey),
             id, ks, mkey)

get_next_message(w, id, mkey) ==
    IF w.status # "ok" THEN NoNext(w)
    ELSE IF mkey = NullMkey
    THEN next_message_loop(w, id, SortedKeys(DOMAIN Target(w, id).pivots), mkey)
    ELSE IF get_pivot_asserts(Target(w, id).pivots)
    THEN NoNext(Abort(w, "get_pivot: assert(mp.size() > 0)"))
    ELSE IF get_pivot_throws(Target(w, id).pivots, mkey[1]) THEN NoNext(w)
    ELSE next_message_loop(
             w, id,
             SortedKeys({p \in DOMAIN Target(w, id).pivots :
                            p >= get_pivot(Target(w, id).pivots, mkey[1])}),
             mkey)

(***************************************************************************)
(* betree::iterator.  ret is the iterator.                                 *)
(***************************************************************************)
\* iterator(const betree &bet): position(), is_valid(false), pos_is_valid(false)
NewIterator ==
    [position |-> [mk |-> MessageKey(0, 0), msg |-> Message(INSERT, DefaultValue)],
     is_valid |-> FALSE, pos_is_valid |-> FALSE, first |-> 0, second |-> DefaultValue]

\* iterator::apply
iterator_apply(it, msgkey, msg, default_value) ==
    IF msg.opcode = INSERT
    THEN [it EXCEPT !.first = msgkey[1], !.second = msg.val, !.is_valid = TRUE]
    ELSE IF msg.opcode = UPDATE
    THEN [it EXCEPT !.first = msgkey[1],
                    !.second = Plus(IF it.is_valid THEN it.second ELSE default_value,
                                    msg.val),
                    !.is_valid = TRUE]
    ELSE [it EXCEPT !.is_valid = FALSE]

\* bet.root->get_next_message(mkey), through the const betree
root_next_message(w, mkey) ==
    unpin(get_next_message(deref(w, w.bet.root, FALSE), w.bet.root, mkey), w.bet.root)

RECURSIVE setup_loop(_, _)
\* try { position = ...; } catch (std::exception e) { pos_is_valid = false; }
positioned(w, it) ==
    setup_loop(w, IF w.ret.kind = "msg"
                  THEN [it EXCEPT !.position = [mk |-> w.ret.mk, msg |-> w.ret.msg]]
                  ELSE [it EXCEPT !.pos_is_valid = FALSE])

\* while (pos_is_valid && (!is_valid || position.first.key == first)) { ... }
setup_loop(w, it) ==
    IF w.status # "ok"
       \/ ~(it.pos_is_valid /\ (~it.is_valid \/ it.position.mk[1] = it.first))
    THEN Return(w, it)
    ELSE positioned(root_next_message(w, it.position.mk),
                    iterator_apply(it, it.position.mk, it.position.msg,
                                   w.bet.default_value))

setup_next_element(w, it) == setup_loop(w, [it EXCEPT !.is_valid = FALSE])

\* try { position = ...; pos_is_valid = true; setup_next_element(); } catch ... {}
iterator_positioned(w) ==
    IF w.status = "ok" /\ w.ret.kind = "msg"
    THEN setup_next_element(
             w, [NewIterator EXCEPT !.position = [mk |-> w.ret.mk, msg |-> w.ret.msg],
                                    !.pos_is_valid = TRUE])
    ELSE Return(w, NewIterator)

\* iterator(const betree &bet, const MessageKey<Key> *mkey)
iterator(w, mkey) == iterator_positioned(root_next_message(w, mkey))

begin(w) == iterator(w, NullMkey)
iter_lower_bound(w, k) == iterator(w, range_start(k))
iter_upper_bound(w, k) == iterator(w, range_end(k))
\* it == b.end(): both iterators of the same tree, end() = iterator(bet)
is_end(it) ==
    /\ it.is_valid = NewIterator.is_valid
    /\ it.pos_is_valid = NewIterator.pos_is_valid
    /\ (~it.pos_is_valid \/ it.position = NewIterator.position)
    /\ (~it.is_valid \/ (it.first = NewIterator.first /\ it.second = NewIterator.second))

\* do_scan: while (it != b.end()) { ...it.first, it.second...; ++it; }, w.ret
\* being the iterator; ret becomes the pairs seen, out followed by the rest.
RECURSIVE scan_loop(_, _)
scan_loop(w, out) ==
    IF w.status # "ok" \/ is_end(w.ret) THEN Return(w, out)
    ELSE scan_loop(setup_next_element(w, w.ret),
                   Append(out, << w.ret.first, w.ret.second >>))
scan(w) == scan_loop(w, << >>)

(***************************************************************************)
(* lru_cache_manager::checkpoint and swap_space::checkpoint                *)
(***************************************************************************)
\* for (auto * ref : cache) if (dirty) clean();  the set is walked in access
\* order, and a clean may erase later entries (objects that die) on the way.
RECURSIVE cache_checkpoint_from(_, _)
cache_checkpoint_from(w, stamp) ==
    LET rest == {r \in w.cache : w.objects[r].accessinfo > stamp}
        cur == CHOOSE r \in rest :
                   \A q \in rest : w.objects[r].accessinfo <= w.objects[q].accessinfo
    IN  IF w.status # "ok" \/ rest = {} THEN w
        ELSE cache_checkpoint_from(IF is_dirty(w, cur) THEN clean(w, cur) ELSE w,
                                   w.objects[cur].accessinfo)
cache_checkpoint(w) == cache_checkpoint_from(w, -1)

\* base_object::save of every object, with next_id and the root's id
Directory(w) ==
    [next_id |-> w.next_id,
     objects |-> [i \in DOMAIN w.objects |->
                     [bsid |-> w.objects[i].bsid,
                      ondisk_referents |-> w.objects[i].ondisk_referents,
                      refcount |-> w.objects[i].refcount]],
     root |-> w.ss_root]

RECURSIVE ref_all(_, _)
ref_all(w, ids) == IF ids = << >> THEN w ELSE ref_all(ref(w, Head(ids), 1), Tail(ids))
RECURSIVE unref_all(_, _)
unref_all(w, ids) ==
    IF ids = << >> THEN w ELSE unref_all(unref(w, Head(ids), 1), Tail(ids))

\* backing_store::get_root / set_root: the persisted root blob id
bs_get_root(w) == w.bs_root
bs_set_root(w, bsid) == [w EXCEPT !.bs_root = bsid]

\* A step of checkpoint() has been made in w: which step, the blob it was about,
\* the objects in the cache manager's set that are dirty, the backing
\* store's root, whether the root is 0 or names a blob that holds a
\* directory, whether the blob of the step does, and whether last_checkpoint
\* is the object table.
LogCheckpoint(w, step, bsid) ==
    IF w.status # "ok" THEN w
    ELSE [w EXCEPT !.events.checkpoint =
             Append(w.events.checkpoint,
                    [step |-> step, bsid |-> bsid,
                     dirty |-> {i \in w.cache : is_dirty(w, i)},
                     root |-> w.bs_root,
                     root_ok |-> \/ w.bs_root = 0
                                 \/ /\ w.bs_root \in DOMAIN w.blobs
                                    /\ IsDirectory(w.blobs[w.bs_root]),
                     held |-> /\ bsid \in DOMAIN w.blobs
                              /\ IsDirectory(w.blobs[bsid]),
                     recorded |-> w.last_checkpoint = DOMAIN w.objects])]

\* last_checkpoint = objects
checkpoint_done(w) ==
    IF w.status # "ok" THEN w
    ELSE LogCheckpoint([w EXCEPT !.last_checkpoint = DOMAIN w.objects],
                       "last_checkpoint", w.bs_root)

\* if (oldbsid) backstore.deallocate(oldbsid);
checkpoint_release(w, oldbsid) ==
    IF oldbsid # 0
    THEN LogCheckpoint(bs_deallocate(w, oldbsid), "deallocate", oldbsid)
    ELSE w

\* backstore.set_root(newbsid);
checkpoint_set_root(w, newbsid) ==
    LogCheckpoint(bs_set_root(w, newbsid), "set_root", newbsid)

\* allocate, get, write, put: the directory in a blob of its own
checkpoint_put(w) ==
    LogCheckpoint(bs_write(bs_allocate(w), w.bs_nextid, Directory(w)),
                  "put", w.bs_nextid)

\* The directory is serialized and written, and the root blob replaced.
checkpoint_write(w) ==
    IF w.status # "ok" THEN w
    ELSE checkpoint_done(
             checkpoint_release(checkpoint_set_root(checkpoint_put(w), w.bs_nextid),
                                bs_get_root(w)))

\* for (p : objects) p.second->ref(); for (p : last_checkpoint) p.second->unref();
checkpoint_refs(w) ==
    IF w.status # "ok" THEN w
    ELSE checkpoint_write(unref_all(ref_all(w, SortedKeys(DOMAIN w.objects)),
                                    SortedKeys(w.last_checkpoint)))

checkpoint(w) ==
    checkpoint_refs(LogCheckpoint(cache_checkpoint(w), "cleaned", w.bs_root))

(***************************************************************************)
(* The process: swap_space(bs, cm) over an empty backing store,            *)
(* lru_cache_manager(cache_size) and betree(sspace, maxnodesize,           *)
(* minflushsize), as main() of test.cpp sets them up.                      *)
(***************************************************************************)
\* The outcomes of the undefined write through a dangling first_pivot_idx.
UBOutcomes == {"freed", "reused"}

World(ub) ==
    [objects |-> objects, next_id |-> next_id, ss_root |-> ss_root,
     last_checkpoint |-> last_checkpoint, blobs |-> blobs, bs_nextid |-> bs_nextid,
     bs_root |-> bs_root, cache |-> cache,
     max_in_memory_objects |-> max_in_memory_objects,
     update_interval |-> update_interval, next_access_time |-> next_access_time,
     bet |-> bet, status |-> status, ub |-> ub, ub_hit |-> FALSE, ret |-> NULL,
     events |-> NoEvents]

\* The construction with next_timestamp = 0.
Construct_from_zero(cache_size, maxnodesize, minflushsize) ==
    allocate([objects |-> << >>, next_id |-> 1, ss_root |-> NULL,
              last_checkpoint |-> {}, blobs |-> << >>, bs_nextid |-> 1, bs_root |-> 0,
              cache |-> {}, max_in_memory_objects |-> cache_size,
              update_interval |-> cache_size \div 100,
              next_access_time |-> cache_size \div 100 + 1,
              bet |-> [root |-> 1, next_timestamp |-> 0,
                       min_flush_size |-> minflushsize,
                       max_node_size |-> maxnodesize,
                       default_value |-> DefaultValue],
              status |-> "ok", ub |-> "freed", ub_hit |-> FALSE, ret |-> NULL,
              events |-> NoEvents],
             0)

\* swap_space(bs, cm), lru_cache_manager(cache_size), betree(sspace,
\* maxnodesize, minflushsize): next_timestamp = 1, root = allocate<node>(0)
Construct(cache_size, maxnodesize, minflushsize) ==
    allocate([objects |-> << >>, next_id |-> 1, ss_root |-> NULL,
              last_checkpoint |-> {}, blobs |-> << >>, bs_nextid |-> 1, bs_root |-> 0,
              cache |-> {}, max_in_memory_objects |-> cache_size,
              update_interval |-> cache_size \div 100,
              next_access_time |-> cache_size \div 100 + 1,
              bet |-> [root |-> 1, next_timestamp |-> 1,
                       min_flush_size |-> minflushsize,
                       max_node_size |-> maxnodesize,
                       default_value |-> DefaultValue],
              status |-> "ok", ub |-> "freed", ub_hit |-> FALSE, ret |-> NULL,
              events |-> NoEvents],
             0)

\* The state of the process moves to w; when an assertion failed on the way the
\* process is gone and only what it wrote to the backing store is kept.
Commit(w) ==
    /\ status' = w.status
    /\ events' = w.events
    /\ blobs' = w.blobs
    /\ bs_nextid' = w.bs_nextid
    /\ bs_root' = w.bs_root
    /\ IF w.status = "ok"
       THEN /\ objects' = w.objects
            /\ next_id' = w.next_id
            /\ ss_root' = w.ss_root
            /\ last_checkpoint' = w.last_checkpoint
            /\ cache' = w.cache
            /\ max_in_memory_objects' = w.max_in_memory_objects
            /\ update_interval' = w.update_interval
            /\ next_access_time' = w.next_access_time
            /\ bet' = w.bet
       ELSE UNCHANGED << objects, next_id, ss_root, last_checkpoint, cache,
                         max_in_memory_objects, update_interval, next_access_time,
                         bet >>

(***************************************************************************)
(* test(): a call on the tree and the same call on the reference map.  h   *)
(* is the harness with its tree: the world w, the reference map, the       *)
(* upserts made so far (history), the last call with its outcome (last)   *)
(* and the number of calls made (nops).                                    *)
(***************************************************************************)
Outcome(op, k, kind, val, out) ==
    [op |-> op, key |-> k, kind |-> kind, val |-> val, out |-> out]
Call(op, k) == [op |-> op, key |-> k]
\* An upsert as the history keeps it: the timestamp is the value of
\* next_timestamp the call found.
Upsert(op, k, ts) == [op |-> op, key |-> k, ts |-> ts]

RefPut(r, k, v) == [x \in DOMAIN r \cup {k} |-> IF x = k THEN v ELSE r[x]]
RefErase(r, k) == [x \in DOMAIN r \ {k} |-> r[x]]

\* No checkpoint() has returned yet.
NoCheckpoint == [reference |-> << >>, root |-> 0, blobs |-> << >>]

Started(cfg) ==
    [w |-> Construct(cfg[1], cfg[2], cfg[3]), reference |-> << >>, history |-> << >>,
     last |-> Outcome("construct", 0, "done", DefaultValue, << >>), nops |-> 0,
     checkpointed |-> NoCheckpoint, reopened |-> FALSE]

\* The value a call passes: a piece of its own, named after the timestamp the
\* call is going to take.
Piece(h) == ValueOf(h.w.bet.next_timestamp)

\* h after an upsert that left the world w and the reference map r
upserted(h, w, r, op, k, v) ==
    [h EXCEPT !.w = w, !.reference = r,
              !.history = Append(h.history, Upsert(op, k, h.w.bet.next_timestamp)),
              !.last = Outcome(op, k, "done", v, << >>), !.nops = h.nops + 1]

\* b.insert(t, v); reference[t] = v;
test_insert(h, k) ==
    upserted(h, insert(h.w, k, Piece(h)), RefPut(h.reference, k, Piece(h)),
             "insert", k, Piece(h))

\* b.update(t, v); reference[t] = reference.count(t) ? reference[t] + v : v;
test_update(h, k) ==
    upserted(h, update(h.w, k, Piece(h)),
             RefPut(h.reference, k,
                    IF k \in DOMAIN h.reference
                    THEN Plus(h.reference[k], Piece(h)) ELSE Piece(h)),
             "update", k, Piece(h))

\* b.erase(t); reference.erase(t);
test_erase(h, k) ==
    upserted(h, erase(h.w, k), RefErase(h.reference, k), "erase", k, DefaultValue)

\* h after a call that left the world w with its answer in w.ret
answered(h, w, op, k, kind, val, out) ==
    [h EXCEPT !.w = w, !.last = Outcome(op, k, kind, val, out), !.nops = @ + 1]

\* try { std::string bval = b.query(t); ... } catch (std::out_of_range e) { ... }
queried(h, w, k) == answered(h, w, "query", k, w.ret.kind, w.ret.val, w.ret.visited)
test_query(h, k) == queried(h, query(h.w, k), k)

\* do_scan has left the pairs it saw in w.ret
scan_answered(h, w, op, k, kind) == answered(h, w, op, k, kind, DefaultValue, w.ret)
\* do_scan from the iterator in w.ret
scanned(h, w, op, k) ==
    scan_answered(h, scan(w), op, k, IF is_end(w.ret) THEN "end" ELSE "at")
test_full_scan(h) == scanned(h, begin(h.w), "full_scan", 0)
test_lower_bound_scan(h, k) == scanned(h, iter_lower_bound(h.w, k), "lower_bound_scan", k)
test_upper_bound_scan(h, k) == scanned(h, iter_upper_bound(h.w, k), "upper_bound_scan", k)

\* The blobs a checkpoint consists of: the directory the backing store's root
\* names and the blob of every object in it.
CheckpointBlobs(w) ==
    ({w.bs_root} \cup {w.objects[i].bsid : i \in DOMAIN w.objects}) \ {0}

\* h once checkpoint() has left the world w: when the backing store has a new
\* root, the checkpoint is the durable state, with the reference map as it is.
checkpoint_answered(h, w) ==
    [answered(h, w, "checkpoint", 0, "done", DefaultValue, << >>) EXCEPT
        !.checkpointed =
            IF w.bs_root = h.w.bs_root THEN @
            ELSE [reference |-> h.reference, root |-> w.bs_root,
                  blobs |-> [b \in CheckpointBlobs(w) \cap DOMAIN w.blobs |->
                                w.blobs[b]]]]

\* sspace.checkpoint()
test_checkpoint(h) == checkpoint_answered(h, checkpoint(h.w))

\* The process ends, by returning from main, by a failed assertion or by a
\* crash, and the program is started again on the same directory with the same
\* arguments.  The files of the backing store are what is left.  main
\* constructs the backing store (nextid = 1), the cache manager, the swap
\* space, which reads the directory the root names into objects, next_id and
\* root (ids, blob ids and reference counts as saved, on-disk referents as
\* the resolution loop over links sets them; no object has a target, a pin or
\* unsaved changes, and last_checkpoint is empty), and a betree, which
\* allocates a root of its own.
restored(d, links) ==
    [i \in DOMAIN d.objects |->
        [target |-> NoTarget, bsid |-> d.objects[i].bsid,
         ondisk_referents |->
             [rid \in {r \in DOMAIN links : i \in DOMAIN links[r]} |-> links[rid][i]],
         refcount |-> d.objects[i].refcount, pincount |-> 0, isdirty |-> FALSE,
         accessinfo |-> 0]]

\* The (id, count) placeholders base_object::load records while the directory
\* d is read: referent id -> (referring object -> count).
links_read(d) ==
    [rid \in UNION {DOMAIN d.objects[i].ondisk_referents : i \in DOMAIN d.objects} |->
        [i \in {j \in DOMAIN d.objects : rid \in DOMAIN d.objects[j].ondisk_referents} |->
            d.objects[i].ondisk_referents[rid]]]

\* cc.unresolved_links as the constructor's resolution loop finds it.  The
\* archive's helper is a copy of cc (get_helper(&ar) = cc), base_object::load
\* records the placeholders in that copy, and the copy goes with the archive:
\* the local cc the loop reads has none.
unresolved_links(d) == << >>

\* one_file_per_object_backing_store(dir) and lru_cache_manager(cache_size) of
\* the new process, with an empty swap space
restarted(w) ==
    [objects |-> << >>, next_id |-> 1, ss_root |-> NULL, last_checkpoint |-> {},
     blobs |-> w.blobs, bs_nextid |-> 1, bs_root |-> w.bs_root, cache |-> {},
     max_in_memory_objects |-> w.max_in_memory_objects,
     update_interval |-> w.max_in_memory_objects \div 100,
     next_access_time |-> w.max_in_memory_objects \div 100 + 1,
     bet |-> [w.bet EXCEPT !.root = NULL, !.next_timestamp = 1],
     status |-> "ok", ub |-> "freed", ub_hit |-> FALSE, ret |-> NULL,
     events |-> NoEvents]

\* swap_space::swap_space(bs, cm), in the world of the new process
swap_space(w) ==
    IF bs_get_root(w) = 0 THEN w
    ELSE IF bs_get_root(w) \notin DOMAIN w.blobs THEN Abort(w, "get: assert(ios->good())")
    ELSE IF ~IsDirectory(w.blobs[bs_get_root(w)])
    THEN Abort(w, "swap_space: the root blob does not hold a directory")
    ELSE [w EXCEPT !.objects = restored(w.blobs[bs_get_root(w)],
                                        unresolved_links(w.blobs[bs_get_root(w)])),
                   !.next_id = w.blobs[bs_get_root(w)].next_id,
                   !.ss_root = w.blobs[bs_get_root(w)].root]

\* betree::betree: root = sspace->allocate<node>(0)
betree(w) ==
    IF w.status # "ok" THEN w ELSE allocate([w EXCEPT !.bet.root = w.next_id], 0)

\* main() again, and test() with an empty reference map
test_reopen(h) ==
    [h EXCEPT !.w = betree(swap_space(restarted(h.w))),
              !.reference = << >>, !.history = << >>,
              !.last = Outcome("reopen", 0, "done", DefaultValue, << >>),
              !.nops = @ + 1,
              !.reopened = h.w.bs_root # 0]

\* One call of test() on h.
test(h, call) ==
    IF call.op = "insert" THEN test_insert(h, call.key)
    ELSE IF call.op = "update" THEN test_update(h, call.key)
    ELSE IF call.op = "erase" THEN test_erase(h, call.key)
    ELSE IF call.op = "query" THEN test_query(h, call.key)
    ELSE IF call.op = "checkpoint" THEN test_checkpoint(h)
    ELSE IF call.op = "reopen" THEN test_reopen(h)
    ELSE IF call.op = "full_scan" THEN test_full_scan(h)
    ELSE IF call.op = "lower_bound_scan" THEN test_lower_bound_scan(h, call.key)
    ELSE test_upper_bound_scan(h, call.key)

\* A script of calls, one after the other.
RECURSIVE run(_, _)
run(h, script) ==
    IF script = << >> \/ h.w.status # "ok" THEN h
    ELSE run(test([h EXCEPT !.w.events = NoEvents], Head(script)), Tail(script))

\* The harness the variables hold, in a run that takes the outcome ub.
Harness(ub) ==
    [w |-> World(ub), reference |-> reference, history |-> history,
     last |-> last_call,
     nops |-> nops, checkpointed |-> checkpointed, reopened |-> reopened]

\* The variables hold h.
Is(h) ==
    /\ objects = h.w.objects
    /\ next_id = h.w.next_id
    /\ ss_root = h.w.ss_root
    /\ last_checkpoint = h.w.last_checkpoint
    /\ blobs = h.w.blobs
    /\ bs_nextid = h.w.bs_nextid
    /\ bs_root = h.w.bs_root
    /\ cache = h.w.cache
    /\ max_in_memory_objects = h.w.max_in_memory_objects
    /\ update_interval = h.w.update_interval
    /\ next_access_time = h.w.next_access_time
    /\ bet = h.w.bet
    /\ status = h.w.status
    /\ reference = h.reference
    /\ history = h.history
    /\ last_call = h.last
    /\ nops = h.nops
    /\ events = h.w.events
    /\ checkpointed = h.checkpointed
    /\ reopened = h.reopened
    /\ pins = << >>

\* The call ends in h.
Becomes(h) ==
    /\ Commit(h.w)
    /\ reference' = h.reference
    /\ history' = h.history
    /\ last_call' = h.last
    /\ nops' = h.nops
    /\ checkpointed' = h.checkpointed
    /\ reopened' = h.reopened
    /\ pins' = IF h.last.op = "reopen" THEN << >> ELSE pins

\* The call ends in h, which a run taking the outcome ub leads to: the run
\* that takes "reused" differs only when the undefined write occurs.
Ends(h, ub) == (ub = "freed" \/ h.w.ub_hit) /\ Becomes(h)

Running == status = "ok" /\ nops < MaxOps

Insert(k) == Running /\ \E ub \in UBOutcomes : Ends(test_insert(Harness(ub), k), ub)
Update(k) == Running /\ \E ub \in UBOutcomes : Ends(test_update(Harness(ub), k), ub)
Erase(k) == Running /\ \E ub \in UBOutcomes : Ends(test_erase(Harness(ub), k), ub)
Query(k) == Running /\ Becomes(test_query(Harness("freed"), k))
FullScan == Running /\ Becomes(test_full_scan(Harness("freed")))
LowerBoundScan(k) == Running /\ Becomes(test_lower_bound_scan(Harness("freed"), k))
UpperBoundScan(k) == Running /\ Becomes(test_upper_bound_scan(Harness("freed"), k))
Checkpoint == Running /\ Becomes(test_checkpoint(Harness("freed")))
\* The process may have ended by a failed assertion.
Reopen == nops < MaxOps /\ Becomes(test_reopen(Harness("freed")))

\* insert(ks[1], ...), insert(ks[2], ...), ...
Inserts(ks) == [i \in 1 .. Len(ks) |-> Call("insert", ks[i])]

\* Where the model takes over: a configuration (cache size, max_node_size,
\* min_flush_size) and the calls test() has made
\* before the calls the model explores.  There are the fresh trees, a root
\* with two leaves below it (leaves in memory and dirty, evicted, or clean
\* after a checkpoint), such a root with a key erased and updated again, a root one insert
\* short of five leaves, a tree of height two, a checkpointed root leaf one
\* insert short of its split, a tree of height two in a cache of six
\* objects, where an interior node has been written back and read again while
\* a leaf below it has unsaved changes, and a root over four leaves with
\* min_flush_size 2 (test's -f option), one of the leaves clean and in memory.
Starts ==
    { << << 2, 4, 1 >>, << >> >>,
      << << 8, 4, 1 >>, << >> >>,
      << << 8, 5, 1 >>, << >> >>,
      << << 4, 8, 2 >>, << >> >>,
      << << 2, 4, 1 >>, Inserts(<< 1, 2, 3 >>) >>,
      << << 8, 4, 1 >>, Inserts(<< 1, 2, 3 >>) >>,
      << << 2, 5, 1 >>, Inserts(<< 1, 2, 3 >>) >>,
      << << 8, 5, 1 >>, Inserts(<< 1, 2, 3 >>) \o << Call("checkpoint", 0) >> >>,
      << << 2, 4, 1 >>, Inserts(<< 1, 2, 3 >>) \o << Call("checkpoint", 0) >> >>,
      << << 8, 4, 1 >>, Inserts(<< 4, 5 >>) \o << Call("checkpoint", 0) >> >>,
      << << 2, 4, 1 >>,
         Inserts(<< 1, 2, 3 >>) \o << Call("erase", 2), Call("update", 2) >> >>,
      << << 8, 4, 1 >>, Inserts(<< 4, 5, 6, 7, 8 >>) >>,
      << << 2, 4, 1 >>, Inserts(<< 9, 2, 3, 6, 5, 4, 7 >>) >>,
      << << 6, 4, 1 >>,
         Inserts(<< 9, 2, 6, 5, 4, 7, 1, 3, 5 >>)
         \o << Call("query", 3), Call("insert", 8), Call("insert", 1),
                Call("query", 2) >> >>,
      << << 4, 6, 2 >>,
         Inserts(<< 7, 9, 3, 2, 1, 5, 12, 10, 11, 5 >>) \o << Call("query", 3) >> >> }

\* The calls that follow are counted from here.
Warm(h) == [h EXCEPT !.nops = 0]

Init == \E s \in Starts : Is(Warm(run(Started(s[1]), s[2])))

Next ==
    \/ \E k \in Keys : Insert(k)
    \/ \E k \in Keys : Update(k)
    \/ \E k \in Keys : Erase(k)
    \/ \E k \in Keys : Query(k)
    \/ FullScan
    \/ \E k \in Keys : LowerBoundScan(k)
    \/ \E k \in Keys : UpperBoundScan(k)
    \/ Checkpoint
    \/ Reopen

Spec == Init /\ [][Next]_vars

(***************************************************************************)
(* A client of the swap space that holds pin instances of its own, on the  *)
(* object the betree's root handle names, between the calls of test().     *)
(***************************************************************************)
\* What a use of a pin whose object is destroyed can do.
DanglingOutcomes == {"traps", "goes unnoticed"}
\* What pin::operator=, which has no return statement, can do once its body
\* is through.
NoReturnOutcomes == {"returns", "traps"}

\* obj->unpin() through a pin instance
pin_unpin(w, obj, dangling) ==
    IF w.status # "ok" THEN w
    ELSE IF obj \notin DOMAIN w.objects
    THEN IF dangling = "traps" THEN Abort(w, "unpin through a pin of a destroyed object")
         ELSE w
    ELSE unpin(w, obj)
\* obj->pin() through a pin instance
pin_pin(w, obj, dangling) ==
    IF w.status # "ok" THEN w
    ELSE IF obj \notin DOMAIN w.objects
    THEN IF dangling = "traps" THEN Abort(w, "pin through a pin of a destroyed object")
         ELSE w
    ELSE base_pin(w, obj)

\* pin::pin(object *o): obj(o) { obj->pin(); }
pin_ctor(w, o) == base_pin(w, o)
\* pin::~pin: if (obj) obj->unpin();
pin_dtor(w, obj, dangling) == IF obj = NULL THEN w ELSE pin_unpin(w, obj, dangling)
\* The copy constructor the compiler generates: obj(other.obj), nothing else.
pin_copy(w, other) == w
\* pin::operator=: if (obj) obj->unpin(); obj = other.obj; if (obj) obj->pin();
\* and no return statement.
pin_assigned(w, noreturn) ==
    IF w.status = "ok" /\ noreturn = "traps"
    THEN Abort(w, "pin::operator=: control reaches the end of a non-void function")
    ELSE w
pin_assign(w, obj, other, dangling, noreturn) ==
    pin_assigned(IF other = NULL THEN pin_dtor(w, obj, dangling)
                 ELSE pin_pin(pin_dtor(w, obj, dangling), other, dangling),
                 noreturn)

\* The client's statement has left the world w and the pin instances ps.
PinsBecome(w, op, ps) ==
    /\ Commit(w)
    /\ pins' = ps
    /\ last_call' = Outcome(op, 0, "done", DefaultValue, << >>)
    /\ nops' = nops + 1
    /\ UNCHANGED << reference, history, checkpointed, reopened >>

Without(ps, i) == SubSeq(ps, 1, i - 1) \o SubSeq(ps, i + 1, Len(ps))

\* pin<node> p = root.get_pin();
GetPin ==
    /\ Running /\ Len(pins) < MaxPins
    /\ PinsBecome(pin_ctor(World("freed"), bet.root), "get_pin", Append(pins, bet.root))
\* pin<node> q(p);
CopyPin(i) ==
    /\ Running /\ Len(pins) < MaxPins
    /\ PinsBecome(pin_copy(World("freed"), pins[i]), "copy_pin", Append(pins, pins[i]))
\* p = q;
AssignPin(i, j) ==
    /\ Running
    /\ \E dangling \in DanglingOutcomes, noreturn \in NoReturnOutcomes :
           PinsBecome(pin_assign(World("freed"), pins[i], pins[j], dangling, noreturn),
                      "assign_pin", [pins EXCEPT ![i] = pins[j]])
\* p goes out of scope.
DropPin(i) ==
    /\ Running
    /\ \E dangling \in DanglingOutcomes :
           PinsBecome(pin_dtor(World("freed"), pins[i], dangling), "drop_pin",
                      Without(pins, i))

PinNext ==
    \/ Next
    \/ GetPin
    \/ \E i \in DOMAIN pins : CopyPin(i)
    \/ \E i, j \in DOMAIN pins : AssignPin(i, j)
    \/ \E i \in DOMAIN pins : DropPin(i)

PinSpec == Init /\ [][PinNext]_vars

(***************************************************************************)
(* The tree the state holds, read without touching it.                     *)
(***************************************************************************)
\* The node of object id: its target, or what its blob holds while evicted.
NodeOf(id) ==
    IF objects[id].target # NoTarget THEN objects[id].target
    ELSE blobs[objects[id].bsid]
ChildrenOf(id) ==
    {NodeOf(id).pivots[p].child : p \in DOMAIN NodeOf(id).pivots} \ {NULL}
RECURSIVE Reach(_, _)
Reach(seen, frontier) ==
    IF frontier = {} THEN seen
    ELSE Reach(seen \cup frontier,
               UNION {ChildrenOf(i) : i \in frontier} \ (seen \cup frontier))
\* The objects of the subtree of id, and of the whole tree.
Subtree(id) == Reach({}, {id})
TreeNodes == Subtree(bet.root)
\* The message keys a node buffers, and the keys (of pivots and of messages)
\* it stores.
MessagesAt(n) == UNION {DOMAIN n.pivots[p].elements : p \in DOMAIN n.pivots}
KeysAt(n) == DOMAIN n.pivots \cup {mk[1] : mk \in MessagesAt(n)}
SubtreeKeys(id) == UNION {KeysAt(NodeOf(i)) : i \in Subtree(id)}
TreeMessages == UNION {MessagesAt(NodeOf(i)) : i \in TreeNodes}
\* k lies in the range of pivot p of the pivots P: p <= k < the next pivot.
InRange(k, P, p) == p <= k /\ \A q \in DOMAIN P : p < q => k < q

UpsertOps == {"insert", "update", "erase"}
\* The last call was an upsert and it returned.
Upserted == last_call.op \in UpsertOps /\ status = "ok"
\* The entries of the reference map with a key in S, in ascending key order.
RefPairs(S) ==
    [i \in 1 .. Cardinality(S) |-> << SortedKeys(S)[i], reference[SortedKeys(S)[i]] >>]

(***************************************************************************)
(* Point queries against the reference map.                                *)
(***************************************************************************)
\* C1: every query(k) returns the reference map's value when k is present in
\* the reference map and signals not_found when k is absent.
C1_QueryMatchesReference ==
    last_call.op = "query" =>
        /\ status = "ok"
        /\ IF last_call.key \in DOMAIN reference
           THEN last_call.kind = "value" /\ last_call.val = reference[last_call.key]
           ELSE last_call.kind = "not_found"

\* The same agreement on a tree that has seen an upsert: what is left of it
\* apart from the freshly constructed tree.
QueryMatchesReferenceAfterUpsert ==
    (last_call.op = "query" /\ history # << >>) =>
        /\ status = "ok"
        /\ IF last_call.key \in DOMAIN reference
           THEN last_call.kind = "value" /\ last_call.val = reference[last_call.key]
           ELSE last_call.kind = "not_found"

\* C2: a scan from begin() to end() yields exactly the pairs of the reference
\* map in ascending key order, and begin() is end() when no key is live.
C2_FullScanMatchesReference ==
    last_call.op = "full_scan" =>
        /\ status = "ok"
        /\ last_call.out = RefPairs(DOMAIN reference)
        /\ (DOMAIN reference = {} => last_call.kind = "end")

\* C3: on a tree that has seen an upsert, a scan from lower_bound(k) yields
\* exactly the reference map's entries with a key >= k, and lower_bound(k) is
\* end() only when there is none.
C3_LowerBoundMatchesReference ==
    (last_call.op = "lower_bound_scan" /\ history # << >>) =>
        /\ status = "ok"
        /\ last_call.out = RefPairs({x \in DOMAIN reference : x >= last_call.key})
        /\ (last_call.kind = "end" <=> \A x \in DOMAIN reference : x < last_call.key)

\* C4: on a tree that has seen an upsert, a scan from upper_bound(k) yields
\* exactly the reference map's entries with a key > k, and upper_bound(k) is
\* end() only when there is none.
C4_UpperBoundMatchesReference ==
    (last_call.op = "upper_bound_scan" /\ history # << >>) =>
        /\ status = "ok"
        /\ last_call.out = RefPairs({x \in DOMAIN reference : x > last_call.key})
        /\ (last_call.kind = "end" <=> \A x \in DOMAIN reference : x <= last_call.key)

\* C5: query(k) for a key without a live value ends in not_found: no assertion
\* fails and no value is returned.
C5_AbsentKeyNotFound ==
    (last_call.op = "query" /\ last_call.key \notin DOMAIN reference) =>
        status = "ok" /\ last_call.kind = "not_found"

(***************************************************************************)
(* Updates of an absent key.                                               *)
(***************************************************************************)
\* The upserts of the history on key k, in order.
OpsOn(k) == SelectSeq(history, LAMBDA e : e.key = k)
\* The number of updates the sequence s of upserts ends with.
RECURSIVE TrailingUpdates(_)
TrailingUpdates(s) ==
    IF s = << >> \/ s[Len(s)].op # "update" THEN 0
    ELSE 1 + TrailingUpdates(SubSeq(s, 1, Len(s) - 1))
\* s ends with updates of a key that was absent when the first of them came:
\* nothing came before them, or an erase did.
UpdatesOfAbsentKey(s) ==
    /\ TrailingUpdates(s) >= 1
    /\ \/ TrailingUpdates(s) = Len(s)
       \/ s[Len(s) - TrailingUpdates(s)].op = "erase"
\* ((v + v1) + v2) ... + vn for the pieces the upserts of s wrote
RECURSIVE Folded(_, _)
Folded(v, s) == IF s = << >> THEN v ELSE Folded(Plus(v, ValueOf(Head(s).ts)), Tail(s))
UpdateRun(s) == SubSeq(s, Len(s) - TrailingUpdates(s) + 1, Len(s))

\* C6: after update(k, v1), ..., update(k, vn) on an absent key k, with no other
\* upsert of k in between, query(k) returns ((default_value + v1) + v2) ... + vn.
C6_UpdatesFoldFromDefault ==
    (last_call.op = "query" /\ UpdatesOfAbsentKey(OpsOn(last_call.key))) =>
        /\ status = "ok"
        /\ last_call.kind = "value"
        /\ last_call.val = Folded(DefaultValue, UpdateRun(OpsOn(last_call.key)))

\* The buffer of node n for the pivot of key k, and its message keys for k
\* in timestamp order.
BufferFor(n, k) == n.pivots[get_pivot(n.pivots, k)].elements
Covers(n, k) == DOMAIN n.pivots # {} /\ ~get_pivot_throws(n.pivots, k)
MksFor(E, k) == SortedMks({mk \in DOMAIN E : mk[1] = k})

\* A query has answered after two updates of a key that was erased before
\* them: the root is an interior node that buffers the later update, and the
\* query went below it for the earlier one.
C6_Witness ==
    /\ last_call.op = "query"
    /\ status = "ok"
    /\ UpdatesOfAbsentKey(OpsOn(last_call.key))
    /\ TrailingUpdates(OpsOn(last_call.key)) >= 2
    /\ ~is_leaf(NodeOf(bet.root))
    /\ Covers(NodeOf(bet.root), last_call.key)
    /\ Len(MksFor(BufferFor(NodeOf(bet.root), last_call.key), last_call.key)) = 1
    /\ Len(last_call.out) >= 2
    /\ Len(last_call.val) >= 2

(***************************************************************************)
(* The shape of the tree after an upsert.                                  *)
(***************************************************************************)
\* C7: after every returning insert, update or erase every node reachable from
\* the root has total_size <= max_node_size.
C7_NodesWithinMaxSize ==
    Upserted => \A id \in TreeNodes : total_size(NodeOf(id)) <= bet.max_node_size

\* C8: after every returning insert, update or erase, at every node every
\* message buffered under pivot p has its key in [p, next pivot), and so has
\* every pivot key and message key stored in the subtree of p's child.
C8_KeyRanges ==
    Upserted =>
        \A id \in TreeNodes : \A p \in DOMAIN NodeOf(id).pivots :
            /\ \A mk \in DOMAIN NodeOf(id).pivots[p].elements :
                   InRange(mk[1], NodeOf(id).pivots, p)
            /\ NodeOf(id).pivots[p].child # NULL =>
                   \A k \in SubtreeKeys(NodeOf(id).pivots[p].child) :
                       InRange(k, NodeOf(id).pivots, p)

\* An upsert the model made has returned on a tree of height two whose root
\* has at least two pivots, with a message buffered at an interior node under
\* a pivot that is not the last one.
C8_Witness ==
    /\ Upserted
    /\ nops > 0
    /\ NodeOf(bet.root).height = 2
    /\ Cardinality(DOMAIN NodeOf(bet.root).pivots) >= 2
    /\ \E id \in TreeNodes : \E p, q \in DOMAIN NodeOf(id).pivots :
           /\ ~is_leaf(NodeOf(id))
           /\ p < q
           /\ DOMAIN NodeOf(id).pivots[p].elements # {}

\* C9: the timestamps of the upserts are >= 1 and strictly increasing, every
\* message in the tree carries the timestamp of an upsert of its key (never
\* 0), and the message an insert or update has just brought is in the tree
\* under the timestamp the call took.
C9_Timestamps ==
    /\ \A i \in 1 .. Len(history) : history[i].ts >= 1
    /\ \A i, j \in 1 .. Len(history) : i < j => history[i].ts < history[j].ts
    /\ \A mk \in TreeMessages :
           /\ mk[2] # 0
           /\ \E i \in 1 .. Len(history) :
                  history[i].key = mk[1] /\ history[i].ts = mk[2]
    /\ (Upserted /\ last_call.op # "erase") =>
           << last_call.key, history[Len(history)].ts >> \in TreeMessages

\* Two upserts the model made have returned, and the tree holds the messages
\* of both.
C9_Witness ==
    /\ Upserted
    /\ nops >= 2
    /\ last_call.op = "update"
    /\ Len(history) >= 2
    /\ << history[Len(history) - 1].key, history[Len(history) - 1].ts >> \in TreeMessages
    /\ << history[Len(history)].key, history[Len(history)].ts >> \in TreeMessages

(***************************************************************************)
(* A buffered DELETE ends the descent of a query.                          *)
(***************************************************************************)
\* The interior node n buffers a DELETE for k under k's pivot.
BuffersDelete(n, k) ==
    /\ ~is_leaf(n)
    /\ Covers(n, k)
    /\ \E mk \in DOMAIN BufferFor(n, k) :
           mk[1] = k /\ BufferFor(n, k)[mk].opcode = DELETE
\* The message keys of buffer E for k that follow its DELETE for k.
AfterDelete(E, k) ==
    SortedMks({mk \in DOMAIN E :
                  /\ mk[1] = k
                  /\ \E d \in DOMAIN E :
                         d[1] = k /\ E[d].opcode = DELETE /\ d[2] < mk[2]})
\* ((v + m1.val) + m2.val) ... for the messages of E under the keys mks
RECURSIVE FoldedVals(_, _, _)
FoldedVals(v, E, mks) ==
    IF mks = << >> THEN v ELSE FoldedVals(Plus(v, E[Head(mks)].val), E, Tail(mks))

\* C10: when query(k) comes to an interior node that buffers a DELETE for k,
\* the call of node::query on that node makes no call on a node below it; it
\* signals not_found when nothing for k follows the DELETE in the buffer, and
\* else returns default_value folded with the UPDATEs that follow.
C10_DeleteEndsDescent ==
    last_call.op = "query" =>
        \A i \in 1 .. Len(last_call.out) :
            BuffersDelete(NodeOf(last_call.out[i].id), last_call.key) =>
                /\ status = "ok"
                /\ i = Len(last_call.out)
                /\ IF AfterDelete(BufferFor(NodeOf(last_call.out[i].id), last_call.key),
                                  last_call.key) = << >>
                   THEN last_call.out[i].kind = "not_found"
                   ELSE /\ last_call.out[i].kind = "value"
                        /\ last_call.out[i].val =
                               FoldedVals(DefaultValue,
                                          BufferFor(NodeOf(last_call.out[i].id),
                                                    last_call.key),
                                          AfterDelete(BufferFor(NodeOf(last_call.out[i].id),
                                                                last_call.key),
                                                      last_call.key))

\* A query has come to a root that buffers a DELETE for its key with an UPDATE
\* behind it, over a child that holds a live value for the key: the query has
\* returned the UPDATE's piece alone and the root is all it visited.
C10_Witness ==
    /\ last_call.op = "query"
    /\ status = "ok"
    /\ BuffersDelete(NodeOf(bet.root), last_call.key)
    /\ AfterDelete(BufferFor(NodeOf(bet.root), last_call.key), last_call.key) # << >>
    /\ last_call.kind = "value"
    /\ Len(last_call.out) = 1
    /\ last_call.out[1].id = bet.root
    /\ \E c \in ChildrenOf(bet.root) :
           \E mk \in MessagesAt(NodeOf(c)) : mk[1] = last_call.key

\* The other case: the DELETE is the last message for the key, the child below
\* it is not in memory, and the query has signalled not_found.
DeleteOverEvictedChild ==
    /\ last_call.op = "query"
    /\ status = "ok"
    /\ BuffersDelete(NodeOf(bet.root), last_call.key)
    /\ AfterDelete(BufferFor(NodeOf(bet.root), last_call.key), last_call.key) = << >>
    /\ last_call.kind = "not_found"
    /\ objects[NodeOf(bet.root).pivots[get_pivot(NodeOf(bet.root).pivots,
                                                 last_call.key)].child].target = NoTarget

(***************************************************************************)
(* Checkpoints and what a new process finds.                               *)
(***************************************************************************)
\* The pairs of the reference map as the last checkpoint found it.
CheckpointedPairs ==
    [i \in 1 .. Cardinality(DOMAIN checkpointed.reference) |->
        << SortedKeys(DOMAIN checkpointed.reference)[i],
           checkpointed.reference[SortedKeys(DOMAIN checkpointed.reference)[i]] >>]

\* C11: a process started on the backing store of a checkpoint answers, before
\* any upsert of its own, every query and every full scan as the tree did when
\* checkpoint() returned.
C11_ReopenedTreeAnswersAsCheckpointed ==
    (reopened /\ history = << >>) =>
        /\ last_call.op = "query" =>
               /\ status = "ok"
               /\ IF last_call.key \in DOMAIN checkpointed.reference
                  THEN /\ last_call.kind = "value"
                       /\ last_call.val = checkpointed.reference[last_call.key]
                  ELSE last_call.kind = "not_found"
        /\ last_call.op = "full_scan" =>
               /\ status = "ok"
               /\ last_call.out = CheckpointedPairs

\* The object graph alone: every object the new process has read from the
\* directory names a blob that exists and holds what the checkpoint wrote.
ReopenedObjectsLoadable ==
    (reopened /\ last_call.op = "reopen" /\ status = "ok") =>
        \A i \in DOMAIN objects \ {bet.root} :
            /\ objects[i].bsid \in DOMAIN blobs
            /\ objects[i].bsid \in DOMAIN checkpointed.blobs
            /\ blobs[objects[i].bsid] = checkpointed.blobs[objects[i].bsid]

\* C12: in a process that made its checkpoints itself, while the backing
\* store's root names the directory of the last checkpoint, that directory
\* and the blob of every object recorded in it are allocated and hold what the
\* checkpoint wrote.
C12_CheckpointImageIntact ==
    (bs_root # 0 /\ ~reopened) =>
        /\ bs_root = checkpointed.root
        /\ \A b \in DOMAIN checkpointed.blobs :
               b \in DOMAIN blobs /\ blobs[b] = checkpointed.blobs[b]

(***************************************************************************)
(* The cache: residency, eviction, destruction, allocation.                *)
(***************************************************************************)
\* The objects that have a target in memory.
Resident == {i \in DOMAIN objects : objects[i].target # NoTarget}
\* The objects a pin holds.
Pinned == {i \in DOMAIN objects : objects[i].pincount # 0}

\* C13: once a call has returned and no object is pinned, at most
\* max_in_memory_objects (the cache size) objects have a target in memory.
C13_ResidentWithinCacheSize ==
    (status = "ok" /\ Pinned = {}) => Cardinality(Resident) <= max_in_memory_objects

\* C14: every object::evict finds its object with a target in memory, not
\* dirty, with pincount 0 and with a blob id other than 0; an object that is
\* pinned is not evicted.
C14_EvictsOnlyCleanUnpinned ==
    \A e \in events.evict :
        /\ e.resident
        /\ ~e.dirty
        /\ e.pincount = 0
        /\ e.bsid # 0
        /\ e.id \notin e.pinned

\* A call of the model has evicted an object it had to clean first, while
\* other objects, older in the cache, were pinned and stayed.
C14_Witness ==
    /\ status = "ok"
    /\ nops > 0
    /\ \E e \in events.evict :
           /\ e.pinned # {}
           /\ e.bsid \in {a.id : a \in events.bs_allocate}
           /\ \A i \in e.pinned : i \in Resident

\* C15: every delete this finds its object with refcount 0 and pincount 0; an
\* object that lost its last reference while pinned is destroyed only by the
\* time its pins are gone, that is, before the call returns.
C15_DestroysOnlyUnused ==
    /\ \A e \in events.destroy : e.refcount = 0 /\ e.pincount = 0
    /\ status = "ok" =>
           \A id \in events.deferred :
               /\ id \notin DOMAIN objects
               /\ \E e \in events.destroy : e.id = id

\* A call of the model dropped the last reference of a pinned object (the old
\* root, when the root was split), and the object was destroyed after the
\* unpin.
C15_Witness ==
    /\ status = "ok"
    /\ nops > 0
    /\ \E id \in events.deferred :
           /\ id \notin DOMAIN objects
           /\ [id |-> id, refcount |-> 0, pincount |-> 0] \in events.destroy

(***************************************************************************)
(* Reference counts.                                                       *)
(***************************************************************************)
\* The entry of x in a tally of references, 0 when it has none.
CountOf(tally, x) == IF x \in DOMAIN tally THEN tally[x] ELSE 0
\* The handles to x that are alive between calls, in the object table objs
\* of a tree with the given root: the betree's root pointer and the child
\* pointers of the nodes in memory.
LiveHandlesIn(objs, root, x) ==
    (IF root = x THEN 1 ELSE 0)
    + SumSeq([i \in 1 .. Cardinality(DOMAIN objs) |->
                 CountOf(Referents(objs[SortedKeys(DOMAIN objs)[i]].target), x)])
LiveHandles(x) == LiveHandlesIn(objects, bet.root, x)
\* The references to x the blobs of all objects hold.
OnDiskReferencesIn(objs, x) ==
    SumSeq([i \in 1 .. Cardinality(DOMAIN objs) |->
               CountOf(objs[SortedKeys(DOMAIN objs)[i]].ondisk_referents, x)])
OnDiskReferences(x) == OnDiskReferencesIn(objects, x)
\* What the refcount of x accounts for.
ReferencesTo(x) ==
    LiveHandles(x) + OnDiskReferences(x)
    + (IF ss_root = x THEN 1 ELSE 0)
    + (IF x \in last_checkpoint THEN 1 ELSE 0)

\* C16: after every call, and after reopening, the refcount of every object is
\* the number of live handles to it, plus the references the on-disk referents
\* of all objects hold, plus 1 for the swap-space root, plus 1 for an object of
\* the last checkpoint; and every object an on-disk referent names is in the
\* object table.
C16_RefcountsAccountForReferences ==
    status = "ok" =>
        \A x \in DOMAIN objects :
            /\ objects[x].refcount = ReferencesTo(x)
            /\ DOMAIN objects[x].ondisk_referents \subseteq DOMAIN objects

\* The same in a process that did not read its objects from a checkpoint.
RefcountsAccountedBeforeReopening ==
    (status = "ok" /\ ~reopened) =>
        \A x \in DOMAIN objects :
            /\ objects[x].refcount = ReferencesTo(x)
            /\ DOMAIN objects[x].ondisk_referents \subseteq DOMAIN objects

(***************************************************************************)
(* Garbage collection.                                                     *)
(***************************************************************************)
\* x is garbage: in the object table, with no live handle to it, not the
\* swap-space root, and named by no object's on-disk referents.
GarbageIn(objs, root, sroot, x) ==
    /\ x \in DOMAIN objs
    /\ LiveHandlesIn(objs, root, x) = 0
    /\ OnDiskReferencesIn(objs, x) = 0
    /\ sroot # x
Garbage(x) == GarbageIn(objects, bet.root, ss_root, x)

\* C17: garbage is collected under repeated checkpoints: when a checkpoint()
\* that follows a checkpoint() directly has returned, in a process that did not
\* read its objects from a checkpoint, no garbage is left in the object table.
C17_GarbageCollectedByCheckpoints ==
    [][(last_call.op = "checkpoint" /\ last_call'.op = "checkpoint" /\ status' = "ok"
            /\ ~reopened')
           => \A x \in DOMAIN objects' : ~GarbageIn(objects', bet'.root, ss_root', x)]_vars

\* Why it is not: within a process, an object of the last checkpoint is never
\* destroyed, and a checkpoint puts every object of the table into the last
\* checkpoint.
CheckpointedObjectsStay ==
    [][(status' = "ok" /\ last_call'.op # "reopen")
           => /\ last_checkpoint \subseteq DOMAIN objects'
              /\ (last_call'.op = "checkpoint" => last_checkpoint' = DOMAIN objects')]_vars

(***************************************************************************)
(* allocate.                                                               *)
(***************************************************************************)
\* C18: when an allocate() of the last call returned, the new object was in
\* the object table under an id no object had before, with refcount 1, its
\* target in memory, dirty, and without a blob.
C18_AllocatedObjectState ==
    status = "ok" =>
        \A e \in events.allocate :
            /\ e.present /\ e.fresh
            /\ e.refcount = 1
            /\ e.resident /\ e.dirty
            /\ e.bsid = 0

\* The part of it that holds: the new object is in the table under a fresh id
\* with refcount 1.
AllocatedObjectOwned ==
    status = "ok" =>
        \A e \in events.allocate : e.present /\ e.fresh /\ e.refcount = 1

(***************************************************************************)
(* Blob ids.                                                               *)
(***************************************************************************)
\* C19: every blob id the backing store's allocate returned during the last
\* call is positive and was not the id of a blob allocated at that moment,
\* blobs an earlier process on the same directory wrote included.
C19_BlobIdsFresh ==
    \A e \in events.bs_allocate : e.id > 0 /\ ~e.taken

\* Every blob on the directory was allocated by this process's backing store.
DirectoryOwned == \A b \in DOMAIN blobs : b < bs_nextid

\* The same for a call made while every blob on the directory is the
\* process's own, as in a process that started on an empty directory.
BlobIdsFreshBeforeReopening ==
    [][DirectoryOwned =>
           \A e \in events'.bs_allocate : e.id > 0 /\ ~e.taken]_vars

(***************************************************************************)
(* Pins.                                                                   *)
(***************************************************************************)
\* The live pin instances that refer to x: between calls the temporaries of
\* pointer::operator-> are gone and the client's instances are left.
PinsOn(x) == Cardinality({i \in DOMAIN pins : pins[i] = x})

\* C20: between calls the pincount of every object is the number of live pin
\* instances that refer to it, however they were obtained; so no pincount has
\* gone below 0 and wrapped, and with no pin instance alive every pincount is
\* 0.
C20_PincountsCountPins ==
    status = "ok" => \A x \in DOMAIN objects : objects[x].pincount = PinsOn(x)

\* The part of it that holds, in the program of test.cpp, whose pins are the
\* temporaries of pointer::operator-> alone: every pincount is 0 after every
\* call.
PincountsZeroAfterTreeOperations ==
    status = "ok" => \A x \in DOMAIN objects : objects[x].pincount = 0

(***************************************************************************)
(* The next message of the tree.                                           *)
(***************************************************************************)
\* The message keys get_next_message is asked about: where lower_bound(k)
\* starts for the keys of the calls, and every message key of the tree.
AskedMkeys == {range_start(k) : k \in Keys} \cup TreeMessages
\* The messages of the tree that come after mk.
MessagesAfter(mk) == {x \in TreeMessages : MkLess(mk, x)}
\* What root->get_next_message(&mk) answers in the state as it is.
NextMessageAnswer(mk) == root_next_message(World("freed"), mk)

\* C21: in a process that did not read its objects from a checkpoint, on a
\* tree whose root has a pivot, get_next_message(mk) on the root returns the
\* smallest message key after mk among the messages buffered at any node of
\* the tree, and throws out_of_range only when there is none.
C21_NextMessageIsSmallestAfter ==
    (status = "ok" /\ ~reopened /\ DOMAIN NodeOf(bet.root).pivots # {}) =>
        \A mk \in AskedMkeys :
            /\ NextMessageAnswer(mk).status = "ok"
            /\ IF MessagesAfter(mk) = {}
               THEN NextMessageAnswer(mk).ret.kind = "throw"
               ELSE /\ NextMessageAnswer(mk).ret.kind = "msg"
                    /\ NextMessageAnswer(mk).ret.mk = MinMk(MessagesAfter(mk))

(***************************************************************************)
(* Inside flush.                                                           *)
(***************************************************************************)
\* C22: whenever flush took the single-dirty-child path during the last call,
\* the node buffered nothing for that pivot, and the assertion that says so
\* has not failed.
C22_DirtyPathFindsBufferEmpty ==
    /\ \A e \in events.dirty_path : e.buffered = 0
    /\ status # "flush: assert(first_pivot_idx->second.elements.size() == 0)"

\* C23: with min_flush_size = max_node_size / 4 and max_node_size >= 4, every
\* node split was called on during the last call had total_size >=
\* max_node_size and more than one pivot, and neither assertion of split has
\* failed.
C23_SplitPreconditionsHold ==
    (bet.max_node_size >= 4 /\ bet.min_flush_size = bet.max_node_size \div 4) =>
        /\ \A i \in DOMAIN events.split :
               /\ events.split[i].total_size >= bet.max_node_size
               /\ events.split[i].pivots > 1
        /\ status # "split: assert(total_size() >= bet.max_node_size)"
        /\ status # "split: assert(pivots.size() > 1)"
\* A call in which a leaf and an interior node were split.
C23_Witness ==
    /\ status = "ok"
    /\ bet.max_node_size >= 4 /\ bet.min_flush_size = bet.max_node_size \div 4
    /\ \E i \in DOMAIN events.split : events.split[i].height = 0
    /\ \E i \in DOMAIN events.split : events.split[i].height > 0

\* The pivot keys of a set of pivot entries, and the first m of them in key
\* order.
KeysOf(S) == {t[1] : t \in S}
FirstKeys(S, m) == {k \in S : Cardinality({j \in S : j < k}) < m}
\* The entries the left new node is to hold: those of the first floor(n/2)
\* pivots of the node split.
LeftHalf(S) == {t \in S : t[1] \in FirstKeys(KeysOf(S), Cardinality(S) \div 2)}
\* The entry of the returned map for new node id holding the entries half,
\* whose total_size is size.
EntryFor(id, half, size) == << MinKey(KeysOf(half)), id, size, {} >>
SplitResultOk(e) ==
    /\ e.height[2] = e.height[1] /\ e.height[3] = e.height[1]
    /\ e.left = LeftHalf(e.node)
    /\ e.right = e.node \ LeftHalf(e.node)
    /\ e.left # {} /\ e.right # {}
    /\ e.result = {EntryFor(e.a, e.left, e.total_size[2]),
                   EntryFor(e.b, e.right, e.total_size[3])}
    /\ Cardinality(e.result) = 2
    /\ e.total_size[2] + e.total_size[3] = e.total_size[1]

\* C24: every split that returned during the last call made two nodes of the
\* original's height, the left with the first floor(n/2) pivots and the right
\* with the others, each pivot with the child and the buffer it had, and
\* returned two entries, keyed by each new node's smallest pivot, naming the
\* new node with its total_size; sizes add up, so nothing is lost or doubled.
C24_SplitDistributesPivots ==
    \A i \in DOMAIN events.split_result : SplitResultOk(events.split_result[i])
\* A call that split a leaf with messages buffered and an interior node with
\* an odd number of pivots.
C24_Witness ==
    /\ status = "ok"
    /\ \E i \in DOMAIN events.split_result :
           /\ events.split_result[i].height[1] = 0
           /\ \E t \in events.split_result[i].node : t[4] # {}
    /\ \E i \in DOMAIN events.split_result :
           /\ events.split_result[i].height[1] > 0
           /\ Cardinality(events.split_result[i].node) % 2 = 1

\* The pivot of the flushed child records the child's total_size and every
\* other pivot has the child_size it had.
ChildSizeWritten(e) ==
    /\ << e.child_pivot, e.child_total >> \in e.after
    /\ \A t \in e.before : t[1] # e.child_pivot => t \in e.after
\* C25: whenever a node flushed to a child that did not split during the
\* last call, afterwards the pivot of that child records the child's
\* total_size, every other pivot has the child_size it had, and the
\* assignment went through an iterator to a pivot still in the map.
C25_ChildSizeOfFlushedChild ==
    \A i \in DOMAIN events.child_size :
        ~events.child_size[i].dangling /\ ChildSizeWritten(events.child_size[i])
\* The same on the single-dirty-child path alone.
ChildSizeOnDirtyPath ==
    \A i \in DOMAIN events.child_size :
        (\E d \in events.dirty_path :
            /\ d.id = events.child_size[i].id
            /\ d.pivot = events.child_size[i].child_pivot) =>
            ChildSizeWritten(events.child_size[i])

\* Entry t = (pivot, number of messages) of round e meets the thresholds of
\* the flush loop.
Qualifies(e, t) ==
    /\ t[2] >= 1
    /\ IF t[1] \in e.resident THEN t[2] >= bet.min_flush_size \div 2
       ELSE t[2] >= bet.min_flush_size
\* The pick of round e: a pivot that qualifies with no larger qualifying
\* buffer, or none when no pivot qualifies.
BatchOk(e) ==
    IF e.child_pivot = NULL
    THEN \A t \in e.size : ~Qualifies(e, t)
    ELSE \E t \in e.size :
             /\ t[1] = e.child_pivot
             /\ Qualifies(e, t)
             /\ \A u \in e.size : Qualifies(e, u) => u[2] <= t[2]
\* Round e handed over a batch smaller than min_flush_size.
SmallBatch(e) ==
    \E t \in e.size : t[1] = e.child_pivot /\ t[2] < bet.min_flush_size
\* Round e passed over a buffer that holds messages.
PassedOver(e) == \E t \in e.size : t[2] >= 1 /\ ~Qualifies(e, t)
\* C26: in every round of the flush loop during the last call, the pivot
\* picked meets the thresholds (min_flush_size messages, or half of that and
\* at least one when the child is in memory) and no pivot meeting them has a
\* larger buffer; no pivot is picked exactly when none meets them.
C26_FlushBatches == \A i \in DOMAIN events.batch : BatchOk(events.batch[i])
\* A call with a batch smaller than min_flush_size for a child in memory,
\* and a round in which a buffer for a child not in memory was passed over.
C26_Witness ==
    /\ status = "ok"
    /\ \E i \in DOMAIN events.batch : SmallBatch(events.batch[i])
    /\ \E i \in DOMAIN events.batch : PassedOver(events.batch[i])

\* Every child an interior node names is one level below it, and a leaf names
\* no child.
HeightsDescend ==
    \A i \in TreeNodes :
        /\ NodeOf(i).height >= 0
        /\ NodeOf(i).height = 0 => ChildrenOf(i) = {}
        /\ \A p \in DOMAIN NodeOf(i).pivots :
               NodeOf(i).height > 0 =>
                   /\ NodeOf(i).pivots[p].child # NULL
                   /\ NodeOf(NodeOf(i).pivots[p].child).height = NodeOf(i).height - 1
\* Entry e of the log says the root old was replaced by the root new, one
\* level higher, whose pivots are the non-empty map the flush of old returned,
\* with empty buffers.
RootGrown(e, old, new) ==
    /\ e.old = old /\ e.new = new
    /\ e.height[2] = e.height[1] + 1
    /\ e.returned # {}
    /\ e.pivots = e.returned
    /\ \A t \in e.pivots : t[4] = {}
\* Within a process the root is replaced only by an upsert whose flush of the
\* root returned pivots, once, as RootGrown says.
RootChange ==
    (status' = "ok" /\ last_call'.op # "reopen" /\ bet'.root # bet.root) =>
        /\ last_call'.op \in {"insert", "update", "erase"}
        /\ Len(events'.root) = 1
        /\ RootGrown(events'.root[1], bet.root, bet'.root)
\* C27: the root changes only when the flush of the root returned pivots; the
\* new root is one level higher and holds exactly those pivots, with empty
\* buffers; and in every state every child of a node of height h has height
\* h - 1.
C27_RootGrowsByOneLevel ==
    /\ [][RootChange]_vars
    /\ [](status = "ok" => HeightsDescend)
    /\ [](status = "ok" /\ events.root # << >> => bet.root = events.root[1].new)
\* A call that replaced a root of height one, so that the tree has height two.
C27_Witness ==
    /\ status = "ok"
    /\ Len(events.root) = 1
    /\ events.root[1].height = << 1, 2 >>
    /\ NodeOf(bet.root).height = 2

\* The messages of a set for user key k, and those for other keys.
ForKey(S, k) == {m \in S : m[1] = k}
NotForKey(S, k) == {m \in S : m[1] # k}
\* The message entry e applied, as it is stored.
Applied(e) == << e.mk[1], e.mk[2], e.opcode, e.val >>
\* Applying the INSERT or DELETE of entry e left the messages the claim says.
InsertOrDeleteApplied(e) ==
    /\ NotForKey(e.after, e.mk[1]) = NotForKey(e.before, e.mk[1])
    /\ ForKey(e.after, e.mk[1]) =
           IF e.opcode = DELETE /\ e.leaf THEN {} ELSE {Applied(e)}
\* C28: every INSERT applied during the last call left exactly that INSERT
\* for its key in the node; every DELETE left nothing for its key at a leaf
\* and exactly the tombstone at an interior node; the messages for other keys
\* stayed as they were.
C28_ApplyInsertDelete ==
    \A i \in DOMAIN events.apply :
        events.apply[i].opcode \in {INSERT, DELETE} =>
            InsertOrDeleteApplied(events.apply[i])
\* A call that applied a DELETE at an interior node and at a leaf, the leaf
\* holding a message for the key and one for another key.
C28_Witness ==
    /\ status = "ok"
    /\ \E i \in DOMAIN events.apply :
           events.apply[i].opcode = DELETE /\ ~events.apply[i].leaf
    /\ \E i \in DOMAIN events.apply :
           /\ events.apply[i].opcode = DELETE /\ events.apply[i].leaf
           /\ ForKey(events.apply[i].before, events.apply[i].mk[1]) # {}
           /\ NotForKey(events.apply[i].before, events.apply[i].mk[1]) # {}

\* The greatest of the messages S, all for one key: the one stamped last.
Greatest(S) == CHOOSE m \in S : \A x \in S : x[2] <= m[2]
\* What the node is to buffer for the key of the UPDATE e, given the messages
\* S it buffered for that key.
UpdateApplied(e, S) ==
    IF S = {}
    THEN IF e.leaf
         THEN {<< e.mk[1], e.mk[2], INSERT, bet.default_value \o e.val >>}
         ELSE {Applied(e)}
    ELSE IF Greatest(S)[3] = INSERT
    THEN {<< e.mk[1], e.mk[2], INSERT, Greatest(S)[4] \o e.val >>}
    ELSE S \cup {Applied(e)}
\* C29: every UPDATE applied during the last call left, for its key: at a
\* node with no message for the key, INSERT(default_value + v) at a leaf and
\* the UPDATE at an interior node; where the greatest message was INSERT(e),
\* the single INSERT(e + v) under the UPDATE's timestamp; otherwise the
\* earlier messages and the UPDATE.
C29_ApplyUpdate ==
    \A i \in DOMAIN events.apply :
        events.apply[i].opcode = UPDATE =>
            ForKey(events.apply[i].after, events.apply[i].mk[1]) =
                UpdateApplied(events.apply[i],
                              ForKey(events.apply[i].before, events.apply[i].mk[1]))
\* A call that applied an UPDATE onto a buffered INSERT with a value, and an
\* UPDATE onto buffered UPDATEs.
C29_Witness ==
    /\ status = "ok"
    /\ \E i \in DOMAIN events.apply :
           /\ events.apply[i].opcode = UPDATE
           /\ \E m \in ForKey(events.apply[i].before, events.apply[i].mk[1]) :
                  m[3] = INSERT /\ m[4] # << >>
    /\ \E i \in DOMAIN events.apply :
           /\ events.apply[i].opcode = UPDATE
           /\ \E m \in ForKey(events.apply[i].before, events.apply[i].mk[1]) :
                  m[3] = UPDATE

\* How often the tally S counts object x.
TallyOf(S, x) == IF \E t \in S : t[1] = x THEN (CHOOSE t \in S : t[1] = x)[2] ELSE 0
\* The object of entry e is clean, in memory, and holds the blob the
\* backing store's allocate returned during this clean, which now holds the
\* serialization of the target; the blob it had is gone; ondisk_referents
\* tallies the handles of the target.
CleanedObject(e) ==
    /\ ~e.dirty /\ e.resident
    /\ e.bsid = e.newbsid /\ e.allocated /\ e.written /\ e.bsid # e.oldbsid
    /\ e.oldbsid > 0 => ~e.old_kept
    /\ e.ondisk_referents = e.handles /\ e.handles = e.new
\* Every other object is still there, its reference count changed by the
\* difference of the two tallies.
OthersCounted(e) ==
    \A t \in e.before :
        \E u \in e.after :
            u[1] = t[1] /\ u[2] - t[2] = TallyOf(e.new, t[1]) - TallyOf(e.old, t[1])
\* Every object the new image names is alive.
NewImageAlive(e) == \A t \in e.new : \E u \in e.after : u[1] = t[1]
BlobOfCleanFreeOnOwnDirectory ==
    [][DirectoryOwned =>
           \A i \in DOMAIN events'.clean : ~events'.clean[i].taken]_vars

(***************************************************************************)
(* Loading.                                                                *)
(***************************************************************************)
\* The objects of the directory the backing store's root names, as a load of
\* each would have to find them: placeholders resolved to the saved counts.
Resolved ==
    restored(blobs[bs_root], links_read(blobs[bs_root]))

\* C31: no load of the last call failed the referent validation, and after
\* the swap space was rebuilt from a checkpoint every object read from the
\* directory has the checkpointed counts as its ondisk_referents, which are
\* the handles its blob holds: what its first load will compare.
C31_LoadsPassReferentValidation ==
    /\ status # "get_target: assert(refcounts == ondisk_referents)"
    /\ (reopened /\ last_call.op = "reopen" /\ status = "ok") =>
           \A i \in DOMAIN objects \ {bet.root} :
               /\ objects[i].ondisk_referents = Resolved[i].ondisk_referents
               /\ (objects[i].bsid \in DOMAIN blobs /\ IsNode(blobs[objects[i].bsid])) =>
                      objects[i].ondisk_referents = Referents(blobs[objects[i].bsid])

\* The part of it that holds: the loads of a process of objects it cleaned
\* itself.
LoadsOfOwnObjectsPass ==
    status # "get_target: assert(refcounts == ondisk_referents)"

(***************************************************************************)
(* The steps of a checkpoint.                                              *)
(***************************************************************************)
\* The steps the last call's checkpoint made, in order.
CheckpointSteps ==
    [i \in DOMAIN events.checkpoint |-> events.checkpoint[i].step]
\* The orders a checkpoint that returned can have made them in.
CheckpointOrders ==
    {<< "cleaned", "put", "set_root", "deallocate", "last_checkpoint" >>,
     << "cleaned", "put", "set_root", "last_checkpoint" >>}
\* Step e found things as its place in the order demands: no dirty object in
\* the cache manager's set; the root 0 or a blob holding a directory; the new
\* blob holding the directory when it is put and when it becomes the root;
\* the blob deallocated not the root's; last_checkpoint the object table at
\* the end.
CheckpointStepOk(e) ==
    /\ e.dirty = {}
    /\ e.root_ok
    /\ e.step = "put" => e.held /\ e.root # e.bsid
    /\ e.step = "set_root" => e.held /\ e.root = e.bsid
    /\ e.step = "deallocate" => e.root # e.bsid /\ ~e.held
    /\ e.step = "last_checkpoint" => e.recorded
\* The steps made so far are the beginning of one of the orders, all of it
\* when the checkpoint returned.
CheckpointInOrder(steps, returned) ==
    \E o \in CheckpointOrders :
        /\ Len(steps) <= Len(o)
        /\ SubSeq(o, 1, Len(steps)) = steps
        /\ returned => Len(steps) = Len(o)

\* C32: the steps of the last call's checkpoint came in the order cleaned,
\* directory put, set_root, old root deallocated, last_checkpoint replaced,
\* each finding what its place demands; the backing store's root never named
\* a blob that is deallocated or does not hold a directory.
C32_CheckpointOrder ==
    /\ CheckpointInOrder(CheckpointSteps,
                         status = "ok" /\ last_call.op = "checkpoint")
    /\ \A i \in DOMAIN events.checkpoint : CheckpointStepOk(events.checkpoint[i])
    /\ bs_root = 0 \/ (bs_root \in DOMAIN blobs /\ IsDirectory(blobs[bs_root]))

\* The same for the calls made while every blob on the directory is the
\* process's own and the root names a directory, as in a process that started
\* on an empty directory.
CheckpointOrderOnOwnDirectory ==
    [][(DirectoryOwned /\ (bs_root = 0 \/ (bs_root \in DOMAIN blobs /\ IsDirectory(blobs[bs_root])))) =>
           /\ CheckpointInOrder([i \in DOMAIN events'.checkpoint |->
                                     events'.checkpoint[i].step],
                                status' = "ok" /\ last_call'.op = "checkpoint")
           /\ \A i \in DOMAIN events'.checkpoint :
                  CheckpointStepOk(events'.checkpoint[i])
           /\ bs_root' = 0 \/ (bs_root' \in DOMAIN blobs' /\ IsDirectory(blobs'[bs_root']))]_vars

(***************************************************************************)
(* The choice of the object to evict.                                      *)
(***************************************************************************)
\* In the choice e the set was over its size, its stamps were distinct and
\* its objects in memory; the object chosen was in the set, not pinned, and
\* no unpinned object of the set had an older stamp; none was chosen only when
\* every object of the set was pinned.
VictimOk(e) ==
    /\ e.size > e.max
    /\ \A t, u \in e.stamps : t[2] = u[2] => t = u
    /\ \A t \in e.stamps : t[4] = 1
    /\ e.best # NULL =>
           \E t \in e.stamps :
               /\ t[1] = e.best /\ t[3] = 0
               /\ \A u \in e.stamps : u[3] = 0 => t[2] <= u[2]
    /\ e.best = NULL => \A t \in e.stamps : t[3] = 1
\* The object chosen in e was then evicted, clean, and cleaned before by this
\* call when it was dirty.
VictimEvicted(e) ==
    e.best # NULL =>
        /\ \E v \in events.evict : v.id = e.best /\ ~v.dirty
        /\ e.dirty => \E i \in DOMAIN events.clean : events.clean[i].id = e.best

\* C33: every choice of an object to evict during the last call was made
\* with the set over its size and took the unpinned object with the oldest
\* access stamp; the object was evicted, after a clean when it was dirty; no
\* object was evicted that was not chosen, so that nothing is evicted when
\* every object is pinned.
C33_EvictsLeastRecentlyUsed ==
    /\ \A i \in DOMAIN events.victim : VictimOk(events.victim[i])
    /\ status = "ok" =>
           /\ \A i \in DOMAIN events.victim : VictimEvicted(events.victim[i])
           /\ \A v \in events.evict :
                  \E i \in DOMAIN events.victim : events.victim[i].best = v.id
\* A call that chose a dirty object that was not the newest of the unpinned
\* ones, and a call that found every object pinned.
C33_Witness ==
    /\ status = "ok"
    /\ \E i \in DOMAIN events.victim :
           /\ events.victim[i].dirty
           /\ \E u \in events.victim[i].stamps :
                  u[3] = 0 /\ u[1] # events.victim[i].best
    /\ \E i \in DOMAIN events.victim : events.victim[i].best = NULL

(***************************************************************************)
(* Termination of the upserts.                                             *)
(***************************************************************************)
\* The messages counted by a set of (pivot key, number).
RECURSIVE BufferedTotal(_)
BufferedTotal(S) ==
    IF S = {} THEN 0
    ELSE (CHOOSE t \in S : TRUE)[2] + BufferedTotal(S \ {CHOOSE t \in S : TRUE})
\* The round e flushed a buffer that held messages; it left that buffer empty
\* or its pivot replaced, no buffer larger than it was and every buffer of a
\* new pivot empty, so that the node buffers fewer messages; the child was
\* lower than the node.
RoundOk(e) ==
    /\ \E t \in e.before : t[1] = e.child_pivot /\ t[2] > 0
    /\ \A u \in e.after :
           /\ u[1] = e.child_pivot => u[2] = 0
           /\ \/ \E t \in e.before : t[1] = u[1] /\ u[2] <= t[2]
              \/ u[2] = 0 /\ \A t \in e.before : t[1] # u[1]
    /\ BufferedTotal(e.after) < BufferedTotal(e.before)
    /\ 0 <= e.child_height /\ e.child_height < e.height
\* The rebalancing e kept the messages of the leaf, and every pivot it made
\* took at least min_flush_size messages and more than none from a pivot
\* that held more than 2 * min_flush_size: fewer pivots than messages.
RebalanceOk(e) ==
    /\ e.holds = e.held
    /\ Cardinality(e.after) - Cardinality(e.before) <= Cardinality(e.held)
    /\ \A t \in e.before : \E u \in e.after : u[1] = t[1] /\ u[2] <= t[2]
    /\ \A u \in e.after :
           (\A t \in e.before : t[1] # u[1]) =>
               u[2] > 0 /\ u[2] >= bet.min_flush_size

\* C34: an insert, update or erase that met no failed assertion has returned;
\* every round of a flush loop of the last call emptied a buffer that was
\* not empty and refilled none, every flush of a child went to a lower node,
\* and every rebalancing of a leaf made finitely many pivots.
C34_UpsertsTerminate ==
    /\ (status = "ok" /\ last_call.op \in {"insert", "update", "erase"}) =>
           last_call.kind = "done"
    /\ \A i \in DOMAIN events.round : RoundOk(events.round[i])
    /\ \A d \in events.dirty_path : 0 <= d.child_height /\ d.child_height < d.height
    /\ \A i \in DOMAIN events.rebalance : RebalanceOk(events.rebalance[i])
\* An upsert whose flush went down two levels, a round of the flush loop at
\* each, to a leaf that rebalanced its pivots.
C34_Witness ==
    /\ status = "ok"
    /\ last_call.op \in {"insert", "update", "erase"}
    /\ \E i, j \in DOMAIN events.round :
           i < j /\ events.round[i].height < events.round[j].height
    /\ events.rebalance # << >>

(***************************************************************************)
(* The messages of leaves and of interior nodes.                           *)
(***************************************************************************)
\* The messages a buffer holds for the key k, as (timestamp, opcode).
StampsFor(E, k) == {<< mk[2], E[mk].opcode >> : mk \in {x \in DOMAIN E : x[1] = k}}
\* The keys a buffer holds messages for.
KeysIn(E) == {mk[1] : mk \in DOMAIN E}
\* The leaves and the interior nodes of the tree.
Leaves == {id \in TreeNodes : is_leaf(NodeOf(id))}
Interior == TreeNodes \ Leaves
\* Every message of the node n is an INSERT, n holds one message at most for
\* a key, and in every buffer the smallest message from range_start(k) on
\* is the greatest before range_end(k) when either is for k.
LeafOk(n) ==
    /\ \A p \in DOMAIN n.pivots : \A mk \in DOMAIN n.pivots[p].elements :
           n.pivots[p].elements[mk].opcode = INSERT
    /\ \A mk, x \in MessagesAt(n) : mk[1] = x[1] => mk = x
    /\ \A p \in DOMAIN n.pivots : \A k \in KeysIn(n.pivots[p].elements) :
           Cardinality(StampsFor(n.pivots[p].elements, k)) <= 1

\* C35: every message stored in a leaf of the tree is an INSERT and a leaf
\* holds at most one message for a key; no query has failed the assertion
\* of its leaf branch.
C35_LeavesHoldInserts ==
    /\ status # "query: assert(opcode == INSERT)"
    /\ \A id \in Leaves : LeafOk(NodeOf(id))
\* A tree of three leaves or more that hold messages, after an erase and an
\* update have reached a leaf in the last call.
C35_Witness ==
    /\ status = "ok"
    /\ Cardinality({id \in Leaves : MessagesAt(NodeOf(id)) # {}}) >= 3
    /\ \E i \in DOMAIN events.apply :
           events.apply[i].leaf /\ events.apply[i].opcode = DELETE
    /\ \E i \in DOMAIN events.apply :
           events.apply[i].leaf /\ events.apply[i].opcode = UPDATE

\* In the buffer E the messages for the key k are one INSERT or DELETE at
\* most, with the smallest timestamp of them, and UPDATEs.
BufferOk(E, k) ==
    \A t, u \in StampsFor(E, k) :
        t[2] # UPDATE => (t = u \/ (u[2] = UPDATE /\ t[1] < u[1]))

\* C36: in every buffer of an interior node of the tree the messages for a
\* key are at most one INSERT or DELETE, first in timestamp order, and
\* UPDATEs after it; no query has failed the assertion of its folding loop.
C36_InteriorBuffersFold ==
    /\ status # "query: assert(opcode == UPDATE)"
    /\ \A id \in Interior : \A p \in DOMAIN NodeOf(id).pivots :
           \A k \in KeysIn(NodeOf(id).pivots[p].elements) :
               BufferOk(NodeOf(id).pivots[p].elements, k)
\* An interior node buffers a DELETE and an UPDATE after it for one key.
C36_Witness ==
    /\ status = "ok"
    /\ \E id \in Interior : \E p \in DOMAIN NodeOf(id).pivots :
           \E k \in KeysIn(NodeOf(id).pivots[p].elements) :
           /\ \E t \in StampsFor(NodeOf(id).pivots[p].elements, k) : t[2] = DELETE
           /\ \E t \in StampsFor(NodeOf(id).pivots[p].elements, k) : t[2] = UPDATE

(***************************************************************************)
(* Timestamps along a path.                                                *)
(***************************************************************************)
\* The messages stored below the node id: those of the subtrees of its
\* children.
MessagesBelow(id) ==
    UNION {MessagesAt(NodeOf(d)) : d \in UNION {Subtree(c) : c \in ChildrenOf(id)}}

\* C37: while the process runs, every message an interior node of the tree
\* buffers for a key has a timestamp greater than that of every message for
\* the key stored below the node.
C37_NewerMessagesAbove ==
    status = "ok" =>
        \A id \in Interior : \A mk \in MessagesAt(NodeOf(id)) :
            \A x \in MessagesBelow(id) : x[1] = mk[1] => x[2] < mk[2]
\* The root buffers a message for a key that has a message two levels below
\* it, and an interior node other than the root one for a key that has a
\* message in a leaf.
C37_Witness ==
    /\ status = "ok"
    /\ \E mk \in MessagesAt(NodeOf(bet.root)) :
           \E c \in ChildrenOf(bet.root) : \E d \in ChildrenOf(c) :
               \E x \in MessagesAt(NodeOf(d)) : x[1] = mk[1]
    /\ \E id \in Interior \ {bet.root} : \E mk \in MessagesAt(NodeOf(id)) :
           \E x \in MessagesBelow(id) : x[1] = mk[1]

(***************************************************************************)
(* Queries and scans as readers of the tree.                               *)
(***************************************************************************)
ReadOps == {"query", "full_scan", "lower_bound_scan", "upper_bound_scan"}
\* The step is one call of query or of a scan (iterator construction and
\* every advancement up to end()).
ReadStep == nops' = nops + 1 /\ last_call'.op \in ReadOps
ScanStep == ReadStep /\ last_call'.op # "query"
\* The node of object id can be read: in memory, or in a blob that exists.
Readable(id) == objects[id].target # NoTarget \/ objects[id].bsid \in DOMAIN blobs
\* No object has unsaved changes.
FullyClean == \A id \in DOMAIN objects : ~objects[id].isdirty

\* The call changes no node's pivots or buffers, nor the tree's timestamp.
ReadKeepsContent ==
    /\ bet' = bet
    /\ DOMAIN objects' = DOMAIN objects
    /\ \A id \in DOMAIN objects :
           Readable(id) => Readable(id)' /\ NodeOf(id)' = NodeOf(id)
\* The call sets no object's dirty flag, and on a clean tree writes no blob.
ReadSetsNoDirtyFlag ==
    /\ \A id \in DOMAIN objects' : objects'[id].isdirty => objects[id].isdirty
    /\ FullyClean => blobs' = blobs /\ bs_nextid' = bs_nextid

\* C38: query(k) and the construction and advancement of iterators are
\* read-only: they change no node's pivots or buffers, do not advance
\* next_timestamp and set the dirty flag of no object, the root included, so
\* that queries and scans of a fully clean tree cause no write-back.
C38_ReadsAreReadOnly ==
    [][ReadStep => ReadKeepsContent /\ ReadSetsNoDirtyFlag]_vars

\* What holds of the reads: none changes the content of a node or the
\* timestamp, a scan sets no dirty flag, and a query sets none but the root's.
ReadsKeepContent == [][ReadStep => ReadKeepsContent]_vars
ScansSetNoDirtyFlag == [][ScanStep => ReadSetsNoDirtyFlag]_vars
QueryDirtiesRootOnly ==
    [][ReadStep =>
          \A id \in DOMAIN objects' :
              objects'[id].isdirty /\ ~objects[id].isdirty => id = bet.root]_vars

(***************************************************************************)
(* The cache manager's set against the objects of the swap space.          *)
(***************************************************************************)
\* C39: in every reachable state lru_cache_manager::cache holds exactly the
\* live objects whose target is resident, each under an access stamp of its
\* own; every dirty object is resident; every resident clean object (an
\* object is born dirty, so that it has been cleaned or loaded) has a blob
\* id other than 0; and no destroyed object is left in the set.
C39_CacheTracksResidentObjects ==
    /\ cache = Resident
    /\ \A i, j \in cache :
           i # j => objects[i].accessinfo # objects[j].accessinfo
    /\ \A id \in DOMAIN objects : objects[id].isdirty => id \in Resident
    /\ \A id \in Resident : ~objects[id].isdirty => objects[id].bsid # 0

\* The last call evicted an object and destroyed one; the swap space holds
\* an object with unsaved changes and an evicted one, which has a blob.
C39_Witness ==
    /\ status = "ok"
    /\ events.evict # {}
    /\ events.destroy # {}
    /\ \E id \in Resident : objects[id].isdirty
    /\ \E id \in DOMAIN objects : id \notin Resident /\ objects[id].bsid # 0

====
